---- MODULE Spec2Model ----
(***************************************************************************)
(* Model of the meeting proxy: the live generative session                 *)
(* (bot/gemini_live.py: GeminiLiveSession and GeminiLiveManager) and the   *)
(* components around it, each in a section of its own further down.        *)
(*                                                                         *)
(* The program runs on one asyncio event loop: a coroutine runs without    *)
(* interruption from one await to the next.  Every action below is one     *)
(* such run of one coroutine.  The backend (connection open and close,     *)
(* send results, the server's event stream), the callbacks' results and    *)
(* the expiry of the reconnect timer are inputs chosen with \E.            *)
(***************************************************************************)
EXTENDS Integers, Sequences, FiniteSets, TLC

\* ------------------------------------------------------------------ bounds
\* The lifecycle specification (Spec): the manager's calls, disconnect() and
\* one send_audio against the background tasks of up to two sessions.
LifeSessions == 2     \* GeminiLiveSession objects constructed
LifeTasks    == 5     \* asyncio tasks created (receive loops, timers, reconnects)
LifeConns    == 2     \* backend connections requested
LifeOps      == 2     \* calls of create_session / remove_session / disconnect
LifeSends    == 1     \* calls of send_audio
\* The session specification (SpecSession): send_audio and disconnect() on one session.
SessionTasks == 5
SessionConns == 2
SessionOps   == 2     \* create_session, then calls of disconnect()
SessionSends == 1
\* The sending specification (SpecSend): overlapping send_audio calls on one session.
SendTasks    == 5
SendConns    == 2
SendSends    == 3
\* The receiving specification (SpecRecv): the server's events on one session.
RecvTasks    == 5
RecvConns    == 2
RecvEvents   == 2     \* server events consumed by the receive loops
\* The resumption specification (SpecResume): resumption updates and reconnects.
ResumeTasks  == 5
ResumeConns  == 2
ResumeEvents == 2
MaxParts     == 1     \* inline-data parts of one server event
NumBots      == 1     \* bot ids
NumHandles   == 2     \* distinct resumption tokens the server issues

Bots     == 1..NumBots
Handles  == 1..NumHandles
ChunkLens == {2}      \* len(pcm_bytes) of the chunks passed to send_audio

VARIABLES
    sessions,   \* GeminiLiveManager._sessions: bot id -> session object (0: absent)
    sess,       \* the GeminiLiveSession objects, one record of fields each
    tasks,      \* the asyncio tasks created by the sessions
    conns,      \* the backend connections (live.connect() context managers)
    ops,        \* the calls of the manager's and session's coroutines in progress
    hist,       \* history (what was received, delivered, returned), for the properties
    lim,        \* the bounds of the specification being checked (never changes)
    meet,       \* the meeting orchestrators (bot/local_meeting.py, bot/ws_audio.py)
    conv,       \* the conversation sessions and response pipelines (bot/conversation.py, bot/router.py)
    audio_bridge   \* the audio bridge (bot/audio_bridge.py)

vars == <<sessions, sess, tasks, conns, ops, hist, lim, meet, conv, audio_bridge>>

\* The state as one record, so that the steps of a coroutine compose.
\* hist.step tells what the step that led to the state did; every step starts
\* from NoStep.
NoStep == [t |-> 0, raised |-> FALSE, ended |-> "none", send |-> 0, connected |-> FALSE]
World == [sessions |-> sessions, sess |-> sess, tasks |-> tasks,
          conns |-> conns, ops |-> ops, hist |-> [hist EXCEPT !.step = NoStep]]

Commit(w) ==
    /\ Len(w.tasks) <= lim.tasks
    /\ Len(w.conns) <= lim.conns
    /\ Len(w.sess) <= lim.sessions
    /\ Len(w.ops) <= lim.ops
    /\ lim' = lim
    /\ UNCHANGED <<meet, conv, audio_bridge>>
    /\ sessions' = w.sessions
    /\ sess' = w.sess
    /\ tasks' = w.tasks
    /\ conns' = w.conns
    /\ ops' = w.ops
    /\ hist' = w.hist

\* --------------------------------------------------------------- objects
\* GeminiLiveSession.__init__
NewSession(b) ==
    [bot |-> b, client |-> FALSE, session |-> 0, session_ctx |-> 0,
     receive_task |-> 0, reconnect_task |-> 0, connected |-> FALSE,
     resumption_handle |-> 0, audio_buffer |-> <<>>, text_buffer |-> <<>>,
     audio_chunks_sent |-> 0, audio_bytes_sent |-> 0,
     send_error_logged |-> FALSE]

\* asyncio.create_task(coro): the task runs only when the creator has yielded
CreateTask(w, kind, s) ==
    [w EXCEPT !.tasks = Append(@, [kind |-> kind, s |-> s,
                                   pc |-> IF kind = "timer" THEN "sleep" ELSE "new",
                                   cancel |-> FALSE, x |-> 0])]

DoneTask(t) == tasks[t].pc = "done"

\* the coroutine of task t has returned (or its exception has ended it)
Finish(w, t) ==
    [w EXCEPT !.tasks[t].pc = "done", !.tasks[t].cancel = FALSE, !.tasks[t].x = 0]

\* Task.cancel(): the CancelledError is raised at the await the task is
\* suspended on.  A task that awaits another task hands the cancellation to
\* that task and is itself not marked; in _reconnect that await stands in
\* contextlib.suppress(CancelledError), so there the request ends.
Cancel(w, u) ==
    IF w.tasks[u].pc = "done" THEN w
    ELSE IF w.tasks[u].pc = "await_recv"
         THEN LET r == w.tasks[u].x IN
              IF w.tasks[r].pc = "done" THEN w
              ELSE [w EXCEPT !.tasks[r].cancel = TRUE]
         ELSE [w EXCEPT !.tasks[u].cancel = TRUE]

\* self._client.aio.live.connect(model, config): the config carries the handle
OpenConn(w, s, byReconnect) ==
    [w EXCEPT !.conns = Append(@, [s |-> s, st |-> "opening",
                                   handle |-> w.sess[s].resumption_handle,
                                   reconn |-> byReconnect, inflight |-> 0,
                                   seen |-> Len(w.hist.updates),
                                   late |-> s \in w.hist.returned])]

\* self._session_ctx.__aexit__(None, None, None)
\* (on a context manager whose __aenter__ is still running it raises, and the
\* callers swallow that)
CloseConn(w, c) ==
    IF w.conns[c].st = "open"
    THEN [w EXCEPT !.conns[c].st = "closed"]
    ELSE w

\* history kept per session object
NewHist ==
    [since_audio |-> <<>>, since_text |-> <<>>,  \* fragments since the last marker
     failed |-> FALSE,      \* a reconnect has failed to open a connection
     late_reconnect |-> FALSE,  \* a reconnect was triggered after a failed one
     streak |-> 0,          \* the reconnect task a send failure has scheduled
     second |-> FALSE]      \* a send failure scheduled one more within the streak

\* a reconnect is triggered (by a send failure, a receive failure or the timer)
Triggered(w, s) ==
    [w EXCEPT !.hist.s[s].late_reconnect = @ \/ w.hist.s[s].failed]

\* ------------------------------------------------- GeminiLiveSession._reconnect
\* lines 256-263: build the config and ask for the new connection
ReconnectOpen(w, t) ==
    LET s == w.tasks[t].s IN
    IF ~w.sess[s].client
    THEN Finish([w EXCEPT !.hist.s[s].failed = TRUE], t)
    ELSE LET w1 == OpenConn(w, s, TRUE)
             c  == Len(w1.conns)
         IN  [w1 EXCEPT !.sess[s].session_ctx = c,
                        !.tasks[t].pc = "aenter", !.tasks[t].x = c]

\* lines 251-254: cancel the receive loop and wait for it
ReconnectCancelReceive(w, t) ==
    LET s == w.tasks[t].s
        r == w.sess[s].receive_task
    IN  IF r # 0 /\ w.tasks[r].pc # "done"
        THEN [Cancel(w, r) EXCEPT !.tasks[t].pc = "await_recv", !.tasks[t].x = r]
        ELSE ReconnectOpen(w, t)

\* lines 240-245: mark disconnected, start closing the old connection
ReconnectBegin(w, t) ==
    LET s   == w.tasks[t].s
        ctx == w.sess[s].session_ctx
        w1  == [w EXCEPT !.sess[s].connected = FALSE]
    IN  IF ctx # 0
        THEN [CloseConn(w1, ctx) EXCEPT !.tasks[t].pc = "aexit"]
        ELSE ReconnectCancelReceive(w1, t)

\* lines 246-249: __aexit__ has returned or raised
ReconnectClosed(w, t) ==
    LET s == w.tasks[t].s IN
    ReconnectCancelReceive([w EXCEPT !.sess[s].session = 0,
                                     !.sess[s].session_ctx = 0], t)

\* lines 263-281: __aenter__ has returned the new connection
ReconnectConnected_KeepsTimer(w, t) ==
    LET s  == w.tasks[t].s
        c  == w.tasks[t].x
        w1 == [w EXCEPT !.conns[c].st = "open",
                        !.sess[s].session = c,
                        !.sess[s].connected = TRUE,
                        !.sess[s].send_error_logged = FALSE]
        w2 == CreateTask(w1, "recv", s)
        w3 == [w2 EXCEPT !.sess[s].receive_task = Len(w2.tasks)]
        w5 == CreateTask(w3, "timer", s)
        w6 == [w5 EXCEPT !.sess[s].reconnect_task = Len(w5.tasks)]
    IN  Finish(w6, t)
ReconnectConnected(w, t) ==
    LET s  == w.tasks[t].s
        c  == w.tasks[t].x
        w1 == [w EXCEPT !.conns[c].st = "open",
                        !.sess[s].session = c,
                        !.sess[s].connected = TRUE,
                        !.sess[s].send_error_logged = FALSE]
        w2 == CreateTask(w1, "recv", s)
        w3 == [w2 EXCEPT !.sess[s].receive_task = Len(w2.tasks)]
        rt == w3.sess[s].reconnect_task
        w4 == IF rt # 0 /\ w3.tasks[rt].pc # "done" THEN Cancel(w3, rt) ELSE w3
        w5 == CreateTask(w4, "timer", s)
        w6 == [w5 EXCEPT !.sess[s].reconnect_task = Len(w5.tasks)]
    IN  Finish(w6, t)

\* lines 272-274: __aenter__ has raised
ReconnectFailed(w, t) ==
    LET s == w.tasks[t].s
        c == w.tasks[t].x
    IN  Finish([w EXCEPT !.conns[c].st = "failed", !.hist.s[s].failed = TRUE], t)

InReconnect(t) == tasks[t].kind \in {"timer", "reconn"}
Running(t) == tasks[t].pc # "done" /\ ~tasks[t].cancel

\* a task created by asyncio.create_task(self._reconnect()) starts to run
ReconnectTaskStart(t) ==
    /\ tasks[t].kind = "reconn" /\ tasks[t].pc = "new" /\ Running(t)
    /\ Commit(ReconnectBegin(World, t))

ReconnectAexitDone(t) ==
    /\ InReconnect(t) /\ tasks[t].pc = "aexit" /\ Running(t)
    /\ Commit(ReconnectClosed(World, t))

ReconnectReceiveDone(t) ==
    /\ InReconnect(t) /\ tasks[t].pc = "await_recv"
    /\ DoneTask(tasks[t].x)
    /\ Commit(ReconnectOpen(World, t))

ReconnectAenterOk(t) ==
    /\ InReconnect(t) /\ tasks[t].pc = "aenter" /\ Running(t)
    /\ conns[tasks[t].x].st = "opening"
    /\ Commit(ReconnectConnected(World, t))

ReconnectAenterFail(t) ==
    /\ InReconnect(t) /\ tasks[t].pc = "aenter" /\ Running(t)
    /\ Commit(ReconnectFailed(World, t))

\* -------------------------------------------- GeminiLiveSession._reconnect_timer
\* lines 225-232: the sleep is over
TimerBody(w, t) ==
    IF w.sess[w.tasks[t].s].connected THEN ReconnectBegin(Triggered(w, w.tasks[t].s), t)
    ELSE Finish(w, t)

TimerExpires(t) ==
    /\ tasks[t].kind = "timer" /\ tasks[t].pc = "sleep" /\ Running(t)
    /\ Commit(TimerBody(World, t))

\* The CancelledError reaches a task: the receive loop logs it (213-214), the
\* timer passes (233-234), with the _reconnect it was running abandoned at its
\* await (an `except Exception` does not catch CancelledError).
Cancelled(w, t) ==
    LET w1 == IF w.tasks[t].pc = "aenter"
              THEN [w EXCEPT !.conns[w.tasks[t].x].st = "failed"]
              ELSE w
    IN  Finish(w1, t)


TimerCancelled(t) ==
    /\ tasks[t].kind = "timer" /\ tasks[t].pc # "done" /\ tasks[t].cancel
    /\ Commit(Cancelled(World, t))

\* ---------------------------------------------- GeminiLiveSession._receive_loop
\* A server event: a session resumption update (handle 0: none or empty), or
\* server content with inline-data parts (TRUE: with data, FALSE: empty), an
\* output transcription (0: none, 1: empty text, 2: text) and turn_complete;
\* "other" is a message with neither.
PartLists == UNION {[1..n -> BOOLEAN] : n \in 0..MaxParts}
Events ==
    [kind : {"update"}, handle : {0} \cup Handles]
    \cup [kind : {"other"}]
    \cup [kind : {"content"}, parts : PartLists, text : 0..2, turn_complete : BOOLEAN]

\* what the three callbacks do when event e has them called: return, raise, or
\* (on_turn_complete only) return a coroutine that the loop awaits
Outcomes(e) ==
    IF e.kind # "content"
    THEN [audio : {"ok"}, text : {"ok"}, turn : {"ok"}]
    ELSE [audio : IF \E i \in 1..Len(e.parts) : e.parts[i] THEN {"ok", "raise"} ELSE {"ok"},
          text : IF e.text = 2 THEN {"ok", "raise"} ELSE {"ok"},
          turn : IF e.turn_complete THEN {"ok", "raise", "coroutine"} ELSE {"ok"}]

\* how the loop has ended, for the properties
Ended(w, t, how) ==
    [w EXCEPT !.hist.step.t = t, !.hist.step.ended = how]

ReceiveError_Always(w, t) ==
    Finish(CreateTask(Triggered(w, w.tasks[t].s), "reconn", w.tasks[t].s), t)

\* lines 215-220: an exception has ended the loop
ReceiveError(w, t) ==
    LET s == w.tasks[t].s IN
    IF w.sess[s].connected
    THEN Finish(CreateTask(Triggered(w, s), "reconn", s), t)
    ELSE Finish(w, t)

CallbackError_Escapes(w, t) == ReceiveError(w, t)

\* lines 176-177, 188-189, 210-211: the exception is logged, the loop goes on
CallbackError(w, t) == w

\* a callback has raised in this step of task t
Raised(w, t) ==
    [w EXCEPT !.hist.step.t = t, !.hist.step.raised = TRUE]

HandleUpdate_StoreEmpty(w, t, e) ==
    [w EXCEPT !.hist.updates = Append(@, [s |-> w.tasks[t].s, handle |-> e.handle]),
              !.sess[w.tasks[t].s].resumption_handle = e.handle]

\* lines 153-159
HandleUpdate(w, t, e) ==
    LET s  == w.tasks[t].s
        w1 == [w EXCEPT !.hist.updates = Append(@, [s |-> s, handle |-> e.handle])]
    IN  IF e.handle # 0
        THEN [w1 EXCEPT !.sess[s].resumption_handle = e.handle]
        ELSE w1

\* lines 163-177, one part
RECURSIVE HandleParts(_, _, _, _, _)
HandleParts(w, t, parts, i, o) ==
    IF i > Len(parts) THEN w
    ELSE LET s  == w.tasks[t].s
             f  == w.hist.nfrag + 1
             w1 == IF parts[i]
                   THEN LET w0 == [w EXCEPT !.hist.nfrag = f,
                                            !.hist.s[s].since_audio = Append(@, f),
                                            !.sess[s].audio_buffer = Append(@, f)]
                        IN  IF o.audio = "raise" THEN CallbackError(Raised(w0, t), t) ELSE w0
                   ELSE w
         IN  HandleParts(w1, t, parts, i + 1, o)

\* lines 180-189
HandleText(w, t, e, o) ==
    LET s == w.tasks[t].s
        f == w.hist.nfrag + 1
    IN  IF e.text = 2
        THEN LET w0 == [w EXCEPT !.hist.nfrag = f,
                                 !.hist.s[s].since_text = Append(@, f),
                                 !.sess[s].text_buffer = Append(@, f)]
             IN  IF o.text = "raise" THEN CallbackError(Raised(w0, t), t) ELSE w0
        ELSE w

\* the fragments a call of on_turn_complete was given
Fragments(d) ==
    {d.audio[i] : i \in 1..Len(d.audio)} \cup {d.text[i] : i \in 1..Len(d.text)}

\* on_turn_complete(audio_data, text_data) is called by task t: hist.last is the
\* call, hist.given the fragments that the calls before it were given
Delivered(w, t, audio_data, text_data, o) ==
    [w EXCEPT !.hist.calls = @ + 1,
              !.hist.given = @ \cup Fragments(w.hist.last),
              !.hist.last = [s |-> w.tasks[t].s, t |-> t,
                             audio |-> audio_data, text |-> text_data,
                             raised |-> o.turn = "raise",
                             after_raise |-> w.hist.last.raised /\ w.hist.last.t = t]]

TakeBuffers_AudioOnly(w, s) ==
    [w EXCEPT !.sess[s].audio_buffer = <<>>]

\* lines 193-196: the buffers are taken and cleared
TakeBuffers(w, s) ==
    [w EXCEPT !.sess[s].audio_buffer = <<>>, !.sess[s].text_buffer = <<>>]

\* the marker step of a loop that clears the buffers after the callback has returned
HandleTurnComplete_ClearAfterCallback(w, t, e, o) ==
    LET s == w.tasks[t].s
        audio_data == w.sess[s].audio_buffer
        text_data  == w.sess[s].text_buffer
        w2 == [w EXCEPT !.hist.marker = [n |-> @.n + 1, s |-> s,
                                         audio |-> w.hist.s[s].since_audio,
                                         text |-> w.hist.s[s].since_text,
                                         calls |-> w.hist.calls],
                        !.hist.s[s].since_audio = <<>>,
                        !.hist.s[s].since_text = <<>>]
        w3 == Delivered(w2, t, audio_data, text_data, o)
    IN  IF ~e.turn_complete THEN w
        ELSE IF audio_data # <<>> \/ text_data # <<>>
             THEN CASE o.turn = "ok" -> TakeBuffers(w3, s)
                    [] o.turn = "raise" -> CallbackError(Raised(w3, t), t)
                    [] OTHER -> [TakeBuffers(w3, s) EXCEPT !.tasks[t].pc = "cb"]
             ELSE w2

\* lines 191-211
HandleTurnComplete(w, t, e, o) ==
    LET s == w.tasks[t].s
        audio_data == w.sess[s].audio_buffer
        text_data  == w.sess[s].text_buffer
        w1 == TakeBuffers(w, s)
        w2 == [w1 EXCEPT !.hist.marker = [n |-> @.n + 1, s |-> s,
                                          audio |-> w.hist.s[s].since_audio,
                                          text |-> w.hist.s[s].since_text,
                                          calls |-> w.hist.calls],
                         !.hist.s[s].since_audio = <<>>,
                         !.hist.s[s].since_text = <<>>]
    IN  IF ~e.turn_complete THEN w
        ELSE IF audio_data # <<>> \/ text_data # <<>>
             THEN LET w3 == Delivered(w2, t, audio_data, text_data, o)
                  IN  CASE o.turn = "ok" -> w3
                        [] o.turn = "raise" -> CallbackError(Raised(w3, t), t)
                        [] OTHER -> [w3 EXCEPT !.tasks[t].pc = "cb"]
             ELSE w2

\* lines 149-211: one pass of the loop body
HandleEvent(w, t, e, o) ==
    LET w0 == [w EXCEPT !.hist.nevent = @ + 1] IN
    CASE e.kind = "update" -> HandleUpdate(w0, t, e)
      [] e.kind = "other" -> w0
      [] OTHER -> HandleTurnComplete(HandleText(HandleParts(w0, t, e.parts, 1, o), t, e, o),
                                     t, e, o)

\* lines 144-149: the task starts to run
ReceiveStart(t) ==
    /\ tasks[t].kind = "recv" /\ tasks[t].pc = "new" /\ Running(t)
    /\ LET s == tasks[t].s IN
       IF sess[s].session = 0
       THEN Commit(Finish(Ended(World, t, "return"), t))
       ELSE Commit([World EXCEPT !.tasks[t].pc = "wait", !.tasks[t].x = sess[s].session])

ReceiveEvent(t) ==
    /\ tasks[t].kind = "recv" /\ tasks[t].pc = "wait" /\ Running(t)
    /\ conns[tasks[t].x].st = "open"
    /\ hist.nevent < lim.events
    /\ \E e \in {ev \in Events : ev.kind \in lim.kinds} : \E o \in Outcomes(e) : Commit(HandleEvent(World, t, e, o))

\* the call of on_turn_complete that task t is awaiting has raised
CallRaised(w, t) ==
    IF w.hist.last.t = t THEN [w EXCEPT !.hist.last.raised = TRUE] ELSE w

\* the awaited on_turn_complete coroutine returns or raises
ReceiveCallbackDone(t) ==
    /\ tasks[t].kind = "recv" /\ tasks[t].pc = "cb" /\ Running(t)
    /\ \/ Commit([World EXCEPT !.tasks[t].pc = "wait"])
       \/ Commit(CallbackError(Raised(CallRaised([World EXCEPT !.tasks[t].pc = "wait"], t), t), t))

\* session.receive() raises (the connection broke or was closed)
ReceiveFails(t) ==
    /\ tasks[t].kind = "recv" /\ tasks[t].pc = "wait" /\ Running(t)
    /\ Commit(ReceiveError(Ended(World, t, "error"), t))

\* session.receive() is exhausted: the loop ends without an exception
ReceiveEnds(t) ==
    /\ tasks[t].kind = "recv" /\ tasks[t].pc = "wait" /\ Running(t)
    /\ Commit(Finish(Ended(World, t, "end"), t))

\* lines 213-214
ReceiveCancelled(t) ==
    /\ tasks[t].kind = "recv" /\ tasks[t].pc # "done" /\ tasks[t].cancel
    /\ Commit(Cancelled(Ended(World, t, "cancel"), t))


\* ------------------------------------------------- GeminiLiveSession.send_audio
NotConnected_SessionOnly(w, s) ==
    w.sess[s].session = 0

\* line 117
NotConnected(w, s) ==
    ~w.sess[s].connected \/ w.sess[s].session = 0

\* lines 117-124: up to the await of send_realtime_input
SendBegin(w, s, n) ==
    LET w0 == [w EXCEPT !.hist.nsend = @ + 1,
                        !.hist.step.send = s,
                        !.hist.step.connected = w.sess[s].connected]
    IN  IF NotConnected(w, s) THEN w0
        ELSE [w0 EXCEPT !.sess[s].audio_chunks_sent = @ + 1,
                        !.sess[s].audio_bytes_sent = @ + n,
                        !.conns[w.sess[s].session].inflight = @ + 1]

\* line 125: the send has returned
SendReturned(w, c) ==
    [w EXCEPT !.conns[c].inflight = @ - 1,
              !.sess[w.conns[c].s].send_error_logged = FALSE]

\* lines 135-140: the send has raised
SendRaised(w, c) ==
    LET s  == w.conns[c].s
        w1 == [w EXCEPT !.conns[c].inflight = @ - 1]
        k  == w1.hist.s[s].streak
    IN  IF ~w1.sess[s].send_error_logged
        THEN LET w2 == CreateTask([Triggered(w1, s) EXCEPT
                                             !.sess[s].send_error_logged = TRUE,
                                             !.sess[s].connected = FALSE], "reconn", s)
             IN  [w2 EXCEPT !.hist.s[s].streak = Len(w2.tasks),
                            !.hist.s[s].second = @ \/ (k # 0 /\ w1.tasks[k].pc # "done")]
        ELSE w1

SendAudio(s) ==
    /\ s \in 1..Len(sess)
    /\ hist.nsend < lim.sends
    /\ \E n \in ChunkLens : Commit(SendBegin(World, s, n))

SendOk(c) ==
    /\ c \in 1..Len(conns)
    /\ conns[c].inflight > 0 /\ conns[c].st = "open"
    /\ Commit(SendReturned(World, c))

SendFail(c) ==
    /\ c \in 1..Len(conns)
    /\ conns[c].inflight > 0
    /\ Commit(SendRaised(World, c))

\* ------------------------------------------------- GeminiLiveSession.disconnect
\* the call o returns to its caller: create_session and shutdown go on, the
\* others end
EndOp(w, o) ==
    [w EXCEPT !.ops[o].pc = "done", !.ops[o].x = 0]

\* lines 66-78 and 330-337: construct the session and start to connect it
ConnectBegin(w, o) ==
    LET w1 == [w EXCEPT !.sess = Append(@, [NewSession(w.ops[o].b) EXCEPT !.client = TRUE]),
                        !.hist.s = Append(@, NewHist)]
        s  == Len(w1.sess)
        w2 == OpenConn(w1, s, FALSE)
        c  == Len(w2.conns)
    IN  [w2 EXCEPT !.sess[s].session_ctx = c,
                   !.ops[o].s = s, !.ops[o].pc = "connect", !.ops[o].x = c]

\* lines 359-361: the loop of shutdown(), defined with the manager
RECURSIVE ShutdownNext(_, _)

\* lines 303-305
DisconnectEnd(w, o) ==
    LET s  == w.ops[o].s
        w1 == [w EXCEPT !.sess[s].session = 0, !.sess[s].session_ctx = 0,
                        !.hist.returned = @ \cup {s}]
    IN  CASE w.ops[o].kind = "create"   -> ConnectBegin(w1, o)
          [] w.ops[o].kind = "shutdown" -> ShutdownNext(w1, o)
          [] OTHER                      -> EndOp(w1, o)

\* lines 297-299
DisconnectClose(w, o) ==
    LET s   == w.ops[o].s
        ctx == w.sess[s].session_ctx
    IN  IF ctx # 0
        THEN [CloseConn(w, ctx) EXCEPT !.ops[o].pc = "aexit"]
        ELSE DisconnectEnd(w, o)

\* lines 292-295
DisconnectCancelReceive(w, o) ==
    LET s == w.ops[o].s
        r == w.sess[s].receive_task
    IN  IF r # 0 /\ w.tasks[r].pc # "done"
        THEN [Cancel(w, r) EXCEPT !.ops[o].pc = "await_recv", !.ops[o].x = r]
        ELSE DisconnectClose(w, o)

\* lines 287-290
DisconnectCancelTimer(w, o) ==
    LET s  == w.ops[o].s
        rt == w.sess[s].reconnect_task
    IN  IF rt # 0 /\ w.tasks[rt].pc # "done"
        THEN [Cancel(w, rt) EXCEPT !.ops[o].pc = "await_timer", !.ops[o].x = rt]
        ELSE DisconnectCancelReceive(w, o)

\* line 285
DisconnectBegin(w, o) ==
    DisconnectCancelTimer([w EXCEPT !.sess[w.ops[o].s].connected = FALSE], o)

NewOp(w, kind, b, s) ==
    [w EXCEPT !.ops = Append(@, [kind |-> kind, b |-> b, s |-> s, pc |-> "new", x |-> 0])]

\* a caller that holds the session (connect() has returned it) calls disconnect()
Disconnect(s) ==
    /\ s \in 1..Len(sess)
    /\ sess[s].receive_task # 0
    /\ LET w == NewOp(World, "disconnect", sess[s].bot, s)
       IN  Commit(DisconnectBegin(w, Len(w.ops)))

DisconnectTimerDone(o) ==
    /\ o \in 1..Len(ops) /\ ops[o].pc = "await_timer"
    /\ DoneTask(ops[o].x)
    /\ Commit(DisconnectCancelReceive(World, o))

DisconnectReceiveDone(o) ==
    /\ o \in 1..Len(ops) /\ ops[o].pc = "await_recv"
    /\ DoneTask(ops[o].x)
    /\ Commit(DisconnectClose(World, o))

DisconnectAexitDone(o) ==
    /\ o \in 1..Len(ops) /\ ops[o].pc = "aexit"
    /\ Commit(DisconnectEnd(World, o))

\* ---------------------------------------------------------- GeminiLiveManager
\* lines 344-346: pop the session and disconnect it
RemoveBegin_ClearsRegistry(w, o) ==
    LET b == w.ops[o].b
        s == w.sessions[b]
    IN  IF s # 0
        THEN DisconnectBegin([w EXCEPT !.sessions = [x \in DOMAIN w.sessions |-> 0],
                                       !.ops[o].s = s], o)
        ELSE IF w.ops[o].kind = "create" THEN ConnectBegin(w, o) ELSE EndOp(w, o)
RemoveBegin(w, o) ==
    LET b == w.ops[o].b
        s == w.sessions[b]
    IN  IF s # 0
        THEN DisconnectBegin([w EXCEPT !.sessions[b] = 0, !.ops[o].s = s], o)
        ELSE IF w.ops[o].kind = "create" THEN ConnectBegin(w, o) ELSE EndOp(w, o)

\* lines 327-337
CreateBegin(w, o) ==
    IF w.sessions[w.ops[o].b] # 0 THEN RemoveBegin(w, o) ELSE ConnectBegin(w, o)

\* lines 359-361: the next bot id of the list; remove_session of an id that is
\* no longer registered returns at once
ShutdownNext(w, o) ==
    IF w.ops[o].ids = <<>> THEN EndOp(w, o)
    ELSE LET b  == Head(w.ops[o].ids)
             s  == w.sessions[b]
             w1 == [w EXCEPT !.ops[o].ids = Tail(@), !.ops[o].b = b]
         IN  IF s # 0
             THEN DisconnectBegin([w1 EXCEPT !.sessions[b] = 0, !.ops[o].s = s], o)
             ELSE ShutdownNext(w1, o)

\* line 359: list(self._sessions.keys()), in the order of insertion
BotIds_First(w, order) ==
    LET ids == SelectSeq(order, LAMBDA b : w.sessions[b] # 0)
    IN  IF ids = <<>> THEN ids ELSE <<Head(ids)>>
BotIds(w, order) ==
    SelectSeq(order, LAMBDA b : w.sessions[b] # 0)

\* lines 357-362; held (history): the sessions registered at the call
ShutdownBegin(w, order) ==
    LET o  == Len(w.ops) + 1
        w1 == [w EXCEPT !.ops = Append(@,
                  [kind |-> "shutdown", b |-> 0, s |-> 0, pc |-> "new", x |-> 0,
                   ids |-> BotIds(w, order),
                   held |-> {w.sessions[b] : b \in DOMAIN w.sessions} \ {0}])]
    IN  ShutdownNext(w1, o)

\* lines 78-84 and 338-340: connected, tasks started, session registered
Connected(w, o) ==
    LET s  == w.ops[o].s
        c  == w.ops[o].x
        w1 == [w EXCEPT !.conns[c].st = "open",
                        !.sess[s].session = c,
                        !.sess[s].connected = TRUE]
        w2 == CreateTask(w1, "recv", s)
        w3 == [w2 EXCEPT !.sess[s].receive_task = Len(w2.tasks)]
        w4 == CreateTask(w3, "timer", s)
        w5 == [w4 EXCEPT !.sess[s].reconnect_task = Len(w4.tasks)]
    IN  EndOp([w5 EXCEPT !.sessions[w.ops[o].b] = s], o)

CreateSession(b) ==
    /\ b \in DOMAIN sessions
    /\ LET w == NewOp(World, "create", b, 0)
       IN  Commit(CreateBegin(w, Len(w.ops)))

RemoveSession(b) ==
    /\ b \in DOMAIN sessions
    /\ LET w == NewOp(World, "remove", b, 0)
       IN  Commit(RemoveBegin(w, Len(w.ops)))

ConnectOk(o) ==
    /\ o \in 1..Len(ops) /\ ops[o].pc = "connect"
    /\ conns[ops[o].x].st = "opening"
    /\ Commit(Connected(World, o))

\* __aenter__ raises: connect() and create_session raise to the caller
ConnectFail(o) ==
    /\ o \in 1..Len(ops) /\ ops[o].pc = "connect"
    /\ Commit(EndOp([World EXCEPT !.conns[ops[o].x].st = "failed"], o))


Limits(ns, nt, nc, no, nsend, nev, kinds) ==
    [sessions |-> ns, tasks |-> nt, conns |-> nc, ops |-> no, sends |-> nsend,
     events |-> nev, kinds |-> kinds]

\* no meeting orchestrator, conversation manager or audio bridge is running
NoMeet == [orch |-> "none"]
NoConv == [objs |-> <<>>]
NoBridge == [running |-> FALSE]

LiveInitOn(l, bots) ==
    /\ lim = l
    /\ sessions = [b \in bots |-> 0]
    /\ sess = <<>>
    /\ tasks = <<>>
    /\ conns = <<>>
    /\ ops = <<>>
    /\ hist = [s |-> <<>>, updates |-> <<>>, returned |-> {}, nsend |-> 0, nevent |-> 0,
               nfrag |-> 0, step |-> NoStep, calls |-> 0, given |-> {},
               last |-> [s |-> 0, t |-> 0, audio |-> <<>>, text |-> <<>>,
                         raised |-> FALSE, after_raise |-> FALSE],
               marker |-> [n |-> 0, s |-> 0, audio |-> <<>>, text |-> <<>>, calls |-> 0]]

LiveInit(l) == LiveInitOn(l, Bots)

InitWith(l) == LiveInit(l) /\ meet = NoMeet /\ conv = NoConv /\ audio_bridge = NoBridge

Ops == 1..Len(ops)
Tasks == 1..Len(tasks)

\* the manager's calls and the steps of connect() and disconnect()
ManagerStep ==
    \/ \E b \in Bots : CreateSession(b)
    \/ \E b \in Bots : RemoveSession(b)
    \/ \E o \in Ops : ConnectOk(o)
    \/ \E o \in Ops : ConnectFail(o)
    \/ \E o \in Ops : DisconnectTimerDone(o)
    \/ \E o \in Ops : DisconnectReceiveDone(o)
    \/ \E o \in Ops : DisconnectAexitDone(o)

SendStep ==
    \/ \E s \in 1..Len(sess) : SendAudio(s)
    \/ \E c \in 1..Len(conns) : SendOk(c)
    \/ \E c \in 1..Len(conns) : SendFail(c)

\* the background tasks, without the server's events
TaskStep ==
    \/ \E t \in Tasks : ReceiveStart(t)
    \/ \E t \in Tasks : ReceiveFails(t)
    \/ \E t \in Tasks : ReceiveEnds(t)
    \/ \E t \in Tasks : ReceiveCancelled(t)
    \/ \E t \in Tasks : TimerExpires(t)
    \/ \E t \in Tasks : TimerCancelled(t)
    \/ \E t \in Tasks : ReconnectTaskStart(t)
    \/ \E t \in Tasks : ReconnectAexitDone(t)
    \/ \E t \in Tasks : ReconnectReceiveDone(t)
    \/ \E t \in Tasks : ReconnectAenterOk(t)
    \/ \E t \in Tasks : ReconnectAenterFail(t)

EventStep ==
    \/ \E t \in Tasks : ReceiveEvent(t)
    \/ \E t \in Tasks : ReceiveCallbackDone(t)

\* one session is created and connected
StartStep ==
    \/ CreateSession(1)
    \/ \E o \in Ops : ConnectOk(o)
    \/ \E o \in Ops : ConnectFail(o)

Init == InitWith(Limits(LifeSessions, LifeTasks, LifeConns, LifeOps, LifeSends, 0, {}))
Next ==
    \/ ManagerStep
    \/ \E s \in 1..Len(sess) : Disconnect(s)
    \/ SendStep
    \/ TaskStep
Spec == Init /\ [][Next]_vars

\* the steps of disconnect() called on the session
DisconnectStep ==
    \/ \E s \in 1..Len(sess) : Disconnect(s)
    \/ \E o \in Ops : DisconnectTimerDone(o)
    \/ \E o \in Ops : DisconnectReceiveDone(o)
    \/ \E o \in Ops : DisconnectAexitDone(o)

InitSession == InitWith(Limits(1, SessionTasks, SessionConns, SessionOps, SessionSends, 0, {}))
NextSession == StartStep \/ DisconnectStep \/ SendStep \/ TaskStep
SpecSession == InitSession /\ [][NextSession]_vars

InitSend == InitWith(Limits(1, SendTasks, SendConns, 1, SendSends, 0, {}))
NextSend == StartStep \/ SendStep \/ TaskStep
SpecSend == InitSend /\ [][NextSend]_vars

InitRecv == InitWith(Limits(1, RecvTasks, RecvConns, 1, 0, RecvEvents, {"content"}))
NextRecv == StartStep \/ TaskStep \/ EventStep
SpecRecv == InitRecv /\ [][NextRecv]_vars

InitResume == InitWith(Limits(1, ResumeTasks, ResumeConns, 1, 0, ResumeEvents, {"update", "other"}))
NextResume == StartStep \/ TaskStep \/ \E t \in Tasks : ReceiveEvent(t)
SpecResume == InitResume /\ [][NextResume]_vars

\* ------------------------------------------------------------- properties
Sessions == 1..Len(sess)
Conns == 1..Len(conns)

\* the background tasks of session s that have not ended
RunningTasks(s) == {t \in Tasks : tasks[t].s = s /\ tasks[t].pc # "done"}

\* a session is live: connected, or with background tasks still running
Live(s) == sess[s].connected \/ RunningTasks(s) # {}

\* C1: once disconnect() has returned, the session is not connected, none of
\* its receive-loop, timer or reconnect tasks is running, and no backend
\* connection is opened for it any more.
C1_DisconnectIsFinal ==
    \A s \in hist.returned :
        /\ ~sess[s].connected
        /\ RunningTasks(s) = {}
        /\ \A c \in Conns : conns[c].s = s => ~conns[c].late

\* C2: at every moment at most one session per bot id is live.
C2_OneLiveSessionPerBot ==
    \A b \in Bots : Cardinality({s \in Sessions : sess[s].bot = b /\ Live(s)}) <= 1

\* C3: a turn-complete marker with accumulated audio or text calls
\* on_turn_complete exactly once, with the fragments received since the
\* previous marker in their order; a marker with nothing accumulated calls it
\* zero times.
C3_TurnDelivery ==
    LET m == hist.marker IN
    m.n > 0 =>
        IF m.audio # <<>> \/ m.text # <<>>
        THEN /\ hist.calls = m.calls + 1
             /\ hist.last.s = m.s
             /\ hist.last.audio = m.audio
             /\ hist.last.text = m.text
        ELSE hist.calls = m.calls

C3_Witness ==
    /\ hist.marker.n = 2
    /\ hist.calls = 2
    /\ hist.last.audio # <<>>
    /\ hist.last.text # <<>>

\* C4: when a marker has been processed both buffers are empty, whatever the
\* callback did, and no fragment is given to two calls of on_turn_complete.
C4_BuffersClearedOnce ==
    /\ [][hist.marker'.n # hist.marker.n =>
             /\ sess'[hist.marker'.s].audio_buffer = <<>>
             /\ sess'[hist.marker'.s].text_buffer = <<>>]_vars
    /\ [](Fragments(hist.last) \cap hist.given = {})

C4_Witness ==
    /\ hist.marker.n = 2
    /\ hist.calls = 1
    /\ hist.last.raised
    /\ Cardinality(Fragments(hist.last)) = 2

\* the last non-empty handle among the first n resumption updates of session s
RECURSIVE LastHandle(_, _)
LastHandle(s, n) ==
    IF n = 0 THEN 0
    ELSE IF hist.updates[n].s = s /\ hist.updates[n].handle # 0
         THEN hist.updates[n].handle
         ELSE LastHandle(s, n - 1)

C6_OneReconnectPerStreak ==
    \A s \in Sessions : ~hist.s[s].second

\* C7: send_audio on a session that is not connected hands nothing to the
\* backend, schedules nothing and changes no field of the session.
C7_SendWhenNotConnected ==
    [][(hist'.step.send # 0 /\ ~hist'.step.connected) =>
          (sess' = sess /\ conns' = conns /\ tasks' = tasks)]_vars

C7_Witness ==
    /\ hist.step.send # 0
    /\ ~hist.step.connected
    /\ sess[hist.step.send].session # 0
    /\ sess[hist.step.send].audio_chunks_sent = 0

\* C8: once _reconnect has failed to open a connection the session is never
\* connected again and no further reconnect is triggered.
C8_FailedReconnectIsTerminal ==
    \A s \in Sessions :
        hist.s[s].failed => (~sess[s].connected /\ ~hist.s[s].late_reconnect)

\* C9: a receive loop that ends with an exception while the session is marked
\* connected schedules exactly one reconnect; one that ends by cancellation, or
\* with an exception while the session is marked disconnected, schedules none.
C9_ReceiveLoopEnd ==
    [][\A t \in Tasks :
          (tasks[t].kind = "recv" /\ tasks[t].pc # "done" /\ tasks'[t].pc = "done") =>
              Cardinality({u \in (Len(tasks) + 1)..Len(tasks') : tasks'[u].kind = "reconn"})
                  = IF hist'.step.ended = "error" /\ hist'.step.t = t /\ sess[tasks[t].s].connected
                    THEN 1 ELSE 0]_vars

C9_Witness ==
    /\ hist.step.ended = "error"
    /\ tasks[Len(tasks)].kind = "reconn" /\ tasks[Len(tasks)].pc = "new"
    /\ \E t \in Tasks : tasks[t].kind = "recv" /\ tasks[t].pc = "done" /\ t # hist.step.t

\* C10: an exception of the audio-chunk, text-chunk or turn-complete callback
\* leaves the receive loop running on its connection and schedules nothing.
C10_CallbackErrorIsContained ==
    [][hist'.step.raised =>
          LET t == hist'.step.t
          IN  /\ tasks'[t].pc \in {"wait", "cb"}
              /\ tasks'[t].x = tasks[t].x
              /\ Len(tasks') = Len(tasks)
              /\ sess'[tasks[t].s].connected = sess[tasks[t].s].connected]_vars

\* the first call of on_turn_complete has raised and the same loop has handed
\* over the next turn
C10_Witness ==
    /\ hist.calls = 2
    /\ hist.last.after_raise

\* ===================================================== the meeting orchestrators
\* LocalMeetingSession._handle_turn (bot/local_meeting.py) is the turn-complete
\* callback of the local-device orchestrator; in the websocket orchestrator
\* (bot/ws_audio.py) the callback puts the turn on a queue that the task
\* _send_audio_responses consumes.
MaxTurns == 2      \* completed turns handed to the orchestrator

\* the playback time of a turn's audio in tenths of a second: no audio, a short
\* reply, and one longer than the longest mute window
AudioTenths == {0, 1, 130}

\* the methods and properties that class GeminiLiveSession defines
SessionMethods ==
    {"connect", "_build_config", "send_audio", "_receive_loop", "_reconnect_timer",
     "_reconnect", "disconnect", "connected"}

NoTurn == [audio |-> 0, text |-> FALSE]
LiveVars == <<sessions, sess, tasks, conns, ops, hist, lim>>

MeetCommit(m) == meet' = m /\ UNCHANGED <<LiveVars, conv, audio_bridge>>

\* an orchestrator for one bot: whether it has an audio bridge, a live session
\* (local: self._gemini_session, websocket: get_session(bot_id)), and a
\* repository with a known meeting id
NewMeet(orch, bridge, session, repo) ==
    [orch |-> orch, bridge |-> bridge, session |-> session, repo |-> repo,
     queue |-> <<>>, cur |-> NoTurn, pc |-> "idle", log |-> <<>>,
     nturns |-> 0, done |-> 0,
     last |-> [turn |-> NoTurn, log |-> <<>>, raised |-> FALSE]]

\* the orchestrator calls c(a) on one of its collaborators
Call(m, c, a) == [m EXCEPT !.log = Append(@, [call |-> c, arg |-> a])]

\* the handling of the current turn is over (raised: with an exception)
TurnDone(m, raised) ==
    [m EXCEPT !.last = [turn |-> m.cur, log |-> m.log, raised |-> raised],
              !.cur = NoTurn, !.log = <<>>, !.pc = "idle", !.done = @ + 1]

\* ws_audio.py lines 212-217 (_compute_mute_seconds), in tenths of a second
ComputeMuteSeconds_Unclamped(playback) ==
    IF playback <= 0 THEN 5 ELSE playback + 6
ComputeMuteSeconds(playback) ==
    LET lo == IF playback + 6 > 5 THEN playback + 6 ELSE 5
    IN  IF playback <= 0 THEN 5 ELSE IF lo < 120 THEN lo ELSE 120

\* local_meeting.py line 96: min(max(playback_seconds + 0.6, 0.5), 12.0)
LocalMuteSeconds(playback) ==
    LET lo == IF playback + 6 > 5 THEN playback + 6 ELSE 5
    IN  IF lo < 120 THEN lo ELSE 120

\* session.set_mute_duration exists only if the class defines it; otherwise the
\* attribute lookup raises AttributeError
CanMute == "set_mute_duration" \in SessionMethods

\* local_meeting.py lines 119-139: up to the await of add_conversation_entry
LocalPersist(m) ==
    IF m.repo
    THEN [Call(m, "add_conversation_entry", 0) EXCEPT !.pc = "persist"]
    ELSE TurnDone(m, FALSE)

\* local_meeting.py lines 115-117
LocalText(m) ==
    IF m.cur.text THEN LocalPersist(m) ELSE TurnDone(m, FALSE)

\* local_meeting.py lines 93-113
LocalAudio(m) ==
    LET a == m.cur.audio IN
    IF a > 0 /\ m.bridge
    THEN IF m.session
         THEN IF CanMute
              THEN LocalText(Call(Call(Call(m, "set_mute_duration", 5), "play_audio", a),
                                  "set_mute_duration", LocalMuteSeconds(a)))
              ELSE TurnDone(m, TRUE)
         ELSE LocalText(Call(m, "play_audio", a))
    ELSE LocalText(m)

\* the receive loop calls _handle_turn(audio_data, text_data) and awaits it
LocalHandleTurn(a, x) ==
    /\ meet.orch = "local" /\ meet.pc = "idle" /\ meet.nturns < MaxTurns
    /\ a > 0 \/ x
    /\ MeetCommit(LocalAudio([meet EXCEPT !.cur = [audio |-> a, text |-> x],
                                          !.nturns = @ + 1]))

\* add_conversation_entry returns, or raises (lines 138-139: logged)
LocalPersistDone ==
    /\ meet.orch = "local" /\ meet.pc = "persist"
    /\ MeetCommit(TurnDone(meet, FALSE))

\* ws_audio.py lines 82-87: the receive loop calls the wrapper, which queues the turn
WsTurnComplete(a, x) ==
    /\ meet.orch = "ws" /\ meet.nturns < MaxTurns
    /\ a > 0 \/ x
    /\ MeetCommit([meet EXCEPT !.queue = Append(@, [audio |-> a, text |-> x]),
                               !.nturns = @ + 1])

\* ws_audio.py lines 232-245: up to the await of add_conversation_entry
WsPersist(m) ==
    IF m.repo
    THEN [Call(m, "add_conversation_entry", 0) EXCEPT !.pc = "persist"]
    ELSE TurnDone(m, FALSE)

\* ws_audio.py lines 202-206
WsText(m) ==
    IF m.cur.text THEN WsPersist(m) ELSE TurnDone(m, FALSE)

\* ws_audio.py lines 176-187: up to the await of RecallClient.send_audio
WsAudio(m) ==
    LET a == m.cur.audio IN
    IF m.session
    THEN IF CanMute
         THEN [Call(Call(m, "set_mute_duration", 5), "send_audio", a) EXCEPT !.pc = "send"]
         ELSE WsText(m)
    ELSE [Call(m, "send_audio", a) EXCEPT !.pc = "send"]

\* ws_audio.py lines 162-175: the sender takes the next turn off the queue
WsSenderGet ==
    /\ meet.orch = "ws" /\ meet.pc = "idle" /\ meet.queue # <<>>
    /\ LET m == [meet EXCEPT !.cur = Head(meet.queue), !.queue = Tail(@)]
       IN  IF m.cur.audio = 0
           THEN MeetCommit(TurnDone(m, FALSE))
           ELSE MeetCommit(WsAudio(m))

\* ws_audio.py lines 187-200: RecallClient.send_audio returns or raises
WsSendDone(ok) ==
    /\ meet.orch = "ws" /\ meet.pc = "send"
    /\ IF ok /\ meet.session
       THEN MeetCommit(WsText(Call(meet, "set_mute_duration",
                                   ComputeMuteSeconds(meet.cur.audio))))
       ELSE MeetCommit(WsText(meet))

\* add_conversation_entry returns, or raises (lines 205-206: logged)
WsPersistDone ==
    /\ meet.orch = "ws" /\ meet.pc = "persist"
    /\ MeetCommit(TurnDone(meet, FALSE))

InitTurn ==
    /\ LiveInit(Limits(0, 0, 0, 0, 0, 0, {})) /\ conv = NoConv /\ audio_bridge = NoBridge
    /\ \E orch \in {"local", "ws"}, bridge, session, repo \in BOOLEAN :
          /\ orch = "ws" => bridge = FALSE
          /\ meet = NewMeet(orch, bridge, session, repo)
NextTurn ==
    \/ \E a \in AudioTenths, x \in BOOLEAN : LocalHandleTurn(a, x)
    \/ LocalPersistDone
    \/ \E a \in AudioTenths, x \in BOOLEAN : WsTurnComplete(a, x)
    \/ WsSenderGet
    \/ \E ok \in BOOLEAN : WsSendDone(ok)
    \/ WsPersistDone
SpecTurn == InitTurn /\ [][NextTurn]_vars

\* the calls of c in a log
CallsOf(log, c) == SelectSeq(log, LAMBDA e : e.call = c)

\* the mute and playback calls of a log, in their order
MuteAndPlay(log) ==
    SelectSeq(log, LAMBDA e : e.call \in {"set_mute_duration", "play_audio", "send_audio"})

\* C11: a completed turn with empty audio and non-empty text, in either
\* orchestrator with a repository and a known meeting id, plays or sends no
\* audio and persists exactly one conversation entry.
C11_TextOnlyTurnPersisted ==
    (meet.orch # "none" /\ meet.done > 0 /\ meet.repo
        /\ meet.last.turn.audio = 0 /\ meet.last.turn.text) =>
        /\ MuteAndPlay(meet.last.log) = <<>>
        /\ Len(CallsOf(meet.last.log, "add_conversation_entry")) = 1

\* C12: a completed turn with audio makes exactly the calls pre-mute of 0.5 s,
\* playback, full mute window, in this order; a turn without audio makes no
\* mute call and no playback.
C12_MuteAroundPlayback ==
    (meet.orch # "none" /\ meet.done > 0 /\ meet.session
        /\ (meet.orch = "local" => meet.bridge)) =>
        LET a == meet.last.turn.audio
            l == MuteAndPlay(meet.last.log)
        IN  IF a = 0 THEN l = <<>>
            ELSE /\ Len(l) = 3
                 /\ l[1] = [call |-> "set_mute_duration", arg |-> 5]
                 /\ l[2].call \in {"play_audio", "send_audio"} /\ l[2].arg = a
                 /\ l[3] = [call |-> "set_mute_duration", arg |-> ComputeMuteSeconds(a)]

\* ==================================================== the conversation sessions
\* ConversationSession (bot/conversation.py).  A text is a sequence of
\* characters: "B" and "b" spell the bot's name (the only trigger word), then
\* the question marks, the Japanese question ending, the full stop, a space
\* and a letter that means nothing.
MaxText == 2       \* characters of a transcript text
MaxHist == 2       \* settings.max_conversation_history
MaxAdds == 3       \* calls of add_utterance
Chars == {"B", "b", "?", "Q", "k", ".", " ", "x"}   \* Q: the full-width "？", k: "か", ".": "。"
Texts == UNION {[1..n -> Chars] : n \in 0..MaxText}

\* str.lower()
Lower_Identity(s) == s
Lower(s) == [i \in 1..Len(s) |-> IF s[i] = "B" THEN "b" ELSE s[i]]

\* str.strip()
RECURSIVE Strip(_)
Strip(s) ==
    IF s = <<>> THEN s
    ELSE IF Head(s) = " " THEN Strip(Tail(s))
    ELSE IF s[Len(s)] = " " THEN Strip(SubSeq(s, 1, Len(s) - 1))
    ELSE s

\* `u in s` and s.endswith(u)
Contains(s, u) == \E i \in 1..(Len(s) - Len(u) + 1) : SubSeq(s, i, i + Len(u) - 1) = u
EndsWith(s, u) == Len(s) >= Len(u) /\ SubSeq(s, Len(s) - Len(u) + 1, Len(s)) = u

\* _parse_triggers (lines 33-39): response_triggers is the configured string
\* split at the commas
ParseTriggers(response_triggers, bot_name) ==
    {Lower(Strip(response_triggers[i])) :
        i \in {j \in 1..Len(response_triggers) : Strip(response_triggers[j]) # <<>>}}
    \cup {Lower(bot_name)}

\* with no extra trigger words configured: the bot's name in lower case
Triggers == ParseTriggers(<<>>, <<"B">>)

\* the slice s[start:] of a list
SliceFrom(s, start) ==
    LET n  == Len(s)
        s0 == IF start < 0 THEN (IF n + start < 0 THEN 0 ELSE n + start)
              ELSE (IF start > n THEN n ELSE start)
    IN  SubSeq(s, s0 + 1, n)

\* ConversationSession.__init__
NewConversation(b) ==
    [bot |-> b, history |-> <<>>, is_responding |-> FALSE, triggers |-> Triggers]

\* lines 41-46
AddUtterance(o, u, max_hist) ==
    LET h == Append(o.history, u)
    IN  [o EXCEPT !.history = IF Len(h) > max_hist THEN SliceFrom(h, -max_hist) ELSE h]

ShouldRespond_TriggerFirst(o, text) ==
    LET text_lower == Strip(Lower(text))
    IN  \/ \E trigger \in o.triggers : Contains(text_lower, trigger)
        \/ ~o.is_responding /\
              (\/ EndsWith(text_lower, <<"Q">>) \/ EndsWith(text_lower, <<"?">>)
               \/ EndsWith(text_lower, <<"k">>) \/ EndsWith(text_lower, <<"k", ".">>))

\* lines 52-73
ShouldRespond(o, text) ==
    LET text_lower == Strip(Lower(text))
    IN  IF o.is_responding THEN FALSE
        ELSE \/ \E trigger \in o.triggers : Contains(text_lower, trigger)
             \/ EndsWith(text_lower, <<"Q">>) \/ EndsWith(text_lower, <<"?">>)
             \/ EndsWith(text_lower, <<"k">>) \/ EndsWith(text_lower, <<"k", ".">>)

\* conv.step tells what the step that led to the state did
NoAsk == [kind |-> "none", responding |-> FALSE, result |-> FALSE, text |-> <<>>]

ConvCommit(c) == conv' = c /\ UNCHANGED <<LiveVars, meet, audio_bridge>>

\* one session under a configured maximum; conv.added are the utterances added
InitConv ==
    /\ LiveInit(Limits(0, 0, 0, 0, 0, 0, {})) /\ meet = NoMeet /\ audio_bridge = NoBridge
    /\ \E n \in 0..MaxHist :
          conv = [objs |-> <<NewConversation(1)>>, max_hist |-> n, added |-> <<>>,
                  step |-> NoAsk]

CallAddUtterance ==
    /\ Len(conv.added) < MaxAdds
    /\ LET u == Len(conv.added) + 1
       IN  ConvCommit([conv EXCEPT !.objs[1] = AddUtterance(@, u, conv.max_hist),
                                   !.added = Append(@, u), !.step = NoAsk])

CallShouldRespond(text) ==
    ConvCommit([conv EXCEPT !.step = [kind |-> "ask", text |-> text,
                                      responding |-> conv.objs[1].is_responding,
                                      result |-> ShouldRespond(conv.objs[1], text)]])

\* lines 96-98
SetResponding(v) ==
    /\ conv.objs[1].is_responding # v
    /\ ConvCommit([conv EXCEPT !.objs[1].is_responding = v, !.step = NoAsk])

NextConv ==
    \/ CallAddUtterance
    \/ \E text \in Texts : CallShouldRespond(text)
    \/ \E v \in BOOLEAN : SetResponding(v)
SpecConv == InitConv /\ [][NextConv]_vars

\* C14: while is_responding is true should_respond returns false for every
\* text, and a call of should_respond changes neither the history nor the lock.
C14_NoResponseWhileResponding ==
    [][conv'.step.kind = "ask" =>
          /\ conv'.step.responding => ~conv'.step.result
          /\ conv'.objs = conv.objs]_vars

\* asked while responding, with the bot's name and a question mark in the text
C14_Witness ==
    /\ conv.step.kind = "ask" /\ conv.step.responding
    /\ conv.step.text = <<"B", "?">>
    /\ conv.objs[1].history # <<>>

\* C15: after any calls of add_utterance under maximum N >= 0 the history is
\* the last min(N, number added) utterances added, in insertion order.
C15_HistoryIsLastN ==
    LET n == Len(conv.added)
        k == IF n < conv.max_hist THEN n ELSE conv.max_hist
    IN  conv.objs[1].history = SubSeq(conv.added, n - k + 1, n)

\* ================================================= the text response pipelines
\* ConversationManager (bot/conversation.py) and the routes of bot/router.py
\* that use it: POST /join, POST /{bot_id}/leave, POST /webhook/transcript and
\* the task _handle_avatar_response that the webhook creates.
MaxPipes == 3      \* transcript webhooks (each creates one task)
MaxObjs  == 2      \* ConversationSession objects constructed
PipeTexts == {<<"B">>, <<"x">>}    \* a transcript that names the bot, one that does not

\* ConversationManager.get_or_create (lines 115-120)
GetOrCreate(c, b) ==
    IF c.sessions[b] = 0
    THEN [c EXCEPT !.objs = Append(@, NewConversation(b)), !.sessions[b] = Len(c.objs) + 1]
    ELSE c

\* _conversation_manager._sessions[bot_id] = MeetingConversationSession(...)
\* (router.py lines 108-110 and 303-305), with the meeting recorded for the bot
ReplaceSession(c, b) ==
    [c EXCEPT !.objs = Append(@, NewConversation(b)), !.sessions[b] = Len(c.objs) + 1,
              !.map = @ \cup {b}]

PipeCommit(c) == Len(c.objs) <= MaxObjs /\ ConvCommit(c)

\* POST /join for a meeting with materials, or without (lines 99-121)
Join(b, materials) ==
    /\ materials => conv.repo
    /\ PipeCommit(IF materials THEN ReplaceSession(conv, b) ELSE GetOrCreate(conv, b))

\* POST /{bot_id}/leave (lines 167-174): the mapping is popped, the session removed
Leave(b) ==
    /\ conv.sessions[b] # 0 \/ b \in conv.map
    /\ PipeCommit([conv EXCEPT !.map = @ \ {b}, !.sessions[b] = 0])

\* POST /webhook/transcript (lines 283-324): a lost mapping is restored from the
\* repository (with a new session when the meeting has materials), then the
\* task is created and the answer has status "received".  live records
\* whether GeminiLiveManager had a session for the bot at that time; the
\* handler does not look at it.
WebhookTranscript(b, text, restore) ==
    /\ Len(conv.pipes) < MaxPipes
    /\ restore => (conv.repo /\ b \notin conv.map)
    /\ LET c == IF restore THEN ReplaceSession(conv, b) ELSE conv
       IN  PipeCommit([c EXCEPT !.pipes = Append(@, [bot |-> b, text |-> text,
                                                      pc |-> "new", obj |-> 0,
                                                      status |-> "received",
                                                      end |-> "none",
                                                      live |-> sessions[b] # 0])])

\* router.py lines 197-200: the decision and the lock, with no await in between
PipeDecide(c, p) ==
    LET o == c.pipes[p].obj IN
    IF ShouldRespond(c.objs[o], c.pipes[p].text)
    THEN [c EXCEPT !.objs[o].is_responding = TRUE, !.pipes[p].pc = "generate"]
    ELSE [c EXCEPT !.pipes[p].pc = "done", !.pipes[p].end = "skipped"]

\* router.py lines 181-200: the task starts to run
PipeStart(p) ==
    /\ conv.pipes[p].pc = "new"
    /\ LET b  == conv.pipes[p].bot
           c1 == GetOrCreate(conv, b)
           o  == c1.sessions[b]
           c2 == [c1 EXCEPT !.objs[o] = AddUtterance(@, conv.pipes[p].text, conv.max_hist),
                            !.pipes[p].obj = o]
       IN  IF conv.repo /\ b \in conv.map
           THEN PipeCommit([c2 EXCEPT !.pipes[p].pc = "persist"])
           ELSE PipeCommit(PipeDecide(c2, p))

\* add_conversation_entry returns or raises (lines 193-195)
PipePersisted(p) ==
    /\ conv.pipes[p].pc = "persist"
    /\ PipeCommit(PipeDecide(conv, p))

\* lines 257-260: the pipeline ends with outcome how ("sent", "empty",
\* "no_tts", "raise" for an Exception, "cancel" for the task's cancellation);
\* the finally clause runs on each of them
PipeFinally_ExceptOnly(c, p, how) ==
    [c EXCEPT !.objs[c.pipes[p].obj].is_responding = (how = "cancel"),
              !.pipes[p].pc = "done", !.pipes[p].end = how]
PipeFinally(c, p, how) ==
    [c EXCEPT !.objs[c.pipes[p].obj].is_responding = FALSE,
              !.pipes[p].pc = "done", !.pipes[p].end = how]

\* generate_content returns a text, returns nothing, or raises, or the task
\* is cancelled while it waits (lines 224-234)
PipeGenerated(p, outcome) ==
    /\ conv.pipes[p].pc = "generate"
    /\ IF outcome = "text"
       THEN PipeCommit([conv EXCEPT !.objs[conv.pipes[p].obj] =
                                        AddUtterance(@, <<"r">>, conv.max_hist),
                                    !.pipes[p].pc = "deliver"])
       ELSE PipeCommit(PipeFinally(conv, p, outcome))

\* the persistence, synthesis and sending of the response are over (lines
\* 238-260): the audio was sent, TTS is not available, synthesize_to_base64 or
\* send_audio raised, or the task was cancelled while it waited
PipeDelivered(p, outcome) ==
    /\ conv.pipes[p].pc = "deliver"
    /\ PipeCommit(PipeFinally(conv, p, outcome))

GenerateOutcomes == {"text", "empty", "raise", "cancel"}
DeliverOutcomes  == {"sent", "no_tts", "raise", "cancel"}

InitPipe ==
    /\ LiveInit(Limits(0, 0, 0, 0, 0, 0, {})) /\ meet = NoMeet /\ audio_bridge = NoBridge
    /\ \E repo \in BOOLEAN :
          conv = [objs |-> <<>>, sessions |-> [b \in Bots |-> 0], map |-> {},
                  pipes |-> <<>>, repo |-> repo, max_hist |-> MaxHist]
NextPipe ==
    \/ \E b \in Bots, materials \in BOOLEAN : Join(b, materials)
    \/ \E b \in Bots : Leave(b)
    \/ \E b \in Bots, text \in PipeTexts, restore \in BOOLEAN : WebhookTranscript(b, text, restore)
    \/ \E p \in 1..Len(conv.pipes) : PipeStart(p)
    \/ \E p \in 1..Len(conv.pipes) : PipePersisted(p)
    \/ \E p \in 1..Len(conv.pipes), outcome \in GenerateOutcomes : PipeGenerated(p, outcome)
    \/ \E p \in 1..Len(conv.pipes), outcome \in DeliverOutcomes : PipeDelivered(p, outcome)
SpecPipe == InitPipe /\ [][NextPipe]_vars

\* the pipelines of bot b between taking the lock and releasing it
InFlight(b) ==
    {p \in 1..Len(conv.pipes) :
        conv.pipes[p].bot = b /\ conv.pipes[p].pc \in {"generate", "deliver"}}

\* C13: for each bot id at most one response pipeline is in flight at any
\* time, whatever the interleaving of webhooks, joins and leaves.
C13_OnePipelinePerBot ==
    \A b \in Bots : Cardinality(InFlight(b)) <= 1

\* ============================================================ AudioBridge
\* src/bot/audio_bridge.py, fed into the live session by
\* LocalMeetingSession.start (src/bot/local_meeting.py).  The capture callback
\* runs on the sound device's thread, everything else on the event loop.
MaxChunks   == 3     \* chunks the capture thread hands over
BridgeTasks == 3     \* receive loop, timer and one reconnect
PcmLens     == {1, 3}   \* len(pcm_bytes) of the resampled chunks

\* AudioBridge.__init__; session is LocalMeetingSession._gemini_session.
\* device is the state of the two sounddevice streams, captured, sent, clean,
\* tried and late are history.
NewBridge(s) ==
    [running |-> FALSE, session |-> s,
     capture_stream |-> FALSE, playback_stream |-> FALSE,
     device |-> [capture |-> "none", playback |-> "none"],
     thread |-> 0, pending |-> <<>>, audio_queue |-> <<>>,
     consumer_task |-> [pc |-> "none", cancel |-> FALSE, n |-> 0, x |-> 0],
     stop |-> "idle", raised |-> FALSE,
     started |-> "no",    \* how start() has ended: "ok", or the step that raised
     captured |-> <<>>,   \* the chunks handed over, in the order of capture
     sent |-> <<>>,       \* the chunks passed to send_audio
     clean |-> TRUE,      \* no send has found the session disconnected or failed
     tried |-> {},        \* the streams stop() has tried to close
     late |-> 0]          \* calls of the callback after stop() has returned

BridgeCommit(w, a) ==
    /\ Len(w.tasks) <= lim.tasks
    /\ lim' = lim
    /\ UNCHANGED <<meet, conv>>
    /\ sessions' = w.sessions
    /\ sess' = w.sess
    /\ tasks' = w.tasks
    /\ conns' = w.conns
    /\ ops' = w.ops
    /\ hist' = w.hist
    /\ audio_bridge' = a

RECURSIVE SumOf(_)
SumOf(q) == IF q = <<>> THEN 0 ELSE Head(q) + SumOf(Tail(q))

\* lines 98-172: start() has no await.  how: "ok", or the step that raises
Start_OpenBeforeResolve(a, how) ==
    LET a1 == [a EXCEPT !.running = TRUE, !.audio_queue = <<>>, !.started = how] IN
    IF how = "no_capture" THEN a1
    ELSE LET a2 == [a1 EXCEPT !.capture_stream = TRUE, !.device.capture = "active"] IN
         IF how \in {"no_playback", "playback_fails"} THEN a2
         ELSE [a2 EXCEPT !.playback_stream = TRUE, !.device.playback = "active",
                         !.consumer_task.pc = "new"]
Start(a, how) ==
    LET a1 == [a EXCEPT !.running = TRUE, !.audio_queue = <<>>, !.started = how] IN
    IF how \in {"no_capture", "no_playback"} THEN a1
    ELSE LET a2 == [a1 EXCEPT !.capture_stream = TRUE, !.device.capture = "active"] IN
         IF how = "playback_fails" THEN a2
         ELSE [a2 EXCEPT !.playback_stream = TRUE, !.device.playback = "active",
                         !.consumer_task.pc = "new"]

\* local_meeting.py 82-88
BridgeStart(how) ==
    /\ audio_bridge = NoBridge
    /\ Len(ops) = 1 /\ ops[1].pc = "done" /\ sessions[1] # 0
    /\ BridgeCommit(World, Start(NewBridge(sessions[1]), how))

\* lines 118-130: the device calls the callback with a block; a block that
\* comes when the bridge is not running is dropped
CaptureCallback(n) ==
    /\ audio_bridge.running
    /\ audio_bridge.device.capture = "active"
    /\ audio_bridge.thread = 0
    /\ Len(audio_bridge.captured) < MaxChunks
    /\ BridgeCommit(World, [audio_bridge EXCEPT !.thread = n])

\* lines 131-141: resampled, and handed to the loop
CaptureHandoff ==
    /\ audio_bridge # NoBridge
    /\ audio_bridge.thread # 0
    /\ BridgeCommit(World, [audio_bridge EXCEPT
                       !.pending = Append(@, audio_bridge.thread),
                       !.captured = Append(@, audio_bridge.thread),
                       !.thread = 0])

\* the loop runs self._audio_queue.put_nowait(pcm_bytes)
LoopPut ==
    /\ audio_bridge # NoBridge
    /\ audio_bridge.pending # <<>>
    /\ BridgeCommit(World, [audio_bridge EXCEPT
                       !.audio_queue = Append(@, Head(audio_bridge.pending)),
                       !.pending = Tail(@)])

\* asyncio.Queue.get(): the oldest item
QueueGet_Newest(q) ==
    [item |-> q[Len(q)], rest |-> SubSeq(q, 1, Len(q) - 1)]
QueueGet(q) ==
    [item |-> Head(q), rest |-> Tail(q)]

\* line 176: while self._running
ConsumeLoop(a) ==
    IF a.running
    THEN [a EXCEPT !.consumer_task.pc = "get", !.consumer_task.n = 0, !.consumer_task.x = 0]
    ELSE [a EXCEPT !.consumer_task.pc = "done", !.consumer_task.n = 0, !.consumer_task.x = 0]

ConsumerAt(pc) ==
    /\ audio_bridge # NoBridge
    /\ audio_bridge.consumer_task.pc = pc
    /\ ~audio_bridge.consumer_task.cancel

\* the consumer task starts to run
ConsumeStart ==
    /\ ConsumerAt("new")
    /\ BridgeCommit(World, ConsumeLoop(audio_bridge))

\* lines 178-179 and local_meeting.py 84-86, gemini_live.py 117-124: a chunk is
\* taken from the queue and passed to send_audio
ConsumeGet ==
    /\ ConsumerAt("get")
    /\ audio_bridge.audio_queue # <<>>
    /\ LET g  == QueueGet(audio_bridge.audio_queue)
           s  == audio_bridge.session
           a1 == [audio_bridge EXCEPT !.audio_queue = g.rest,
                                      !.sent = Append(@, g.item),
                                      !.late = IF audio_bridge.stop = "done" THEN @ + 1 ELSE @]
       IN  IF NotConnected(World, s)
           THEN BridgeCommit(SendBegin(World, s, g.item),
                             ConsumeLoop([a1 EXCEPT !.clean = FALSE]))
           ELSE BridgeCommit(SendBegin(World, s, g.item),
                             [a1 EXCEPT !.consumer_task.pc = "send",
                                        !.consumer_task.n = g.item,
                                        !.consumer_task.x = sess[s].session])

\* lines 180-181: nothing came within the second
ConsumeTimeout ==
    /\ ConsumerAt("get")
    /\ audio_bridge.audio_queue = <<>>
    /\ BridgeCommit(World, ConsumeLoop(audio_bridge))

\* gemini_live.py 124-125: the send has returned
ConsumeSendOk ==
    /\ ConsumerAt("send")
    /\ conns[audio_bridge.consumer_task.x].st = "open"
    /\ BridgeCommit(SendReturned(World, audio_bridge.consumer_task.x),
                    ConsumeLoop(audio_bridge))

\* gemini_live.py 135-140: the send has raised, send_audio returns
ConsumeSendFail ==
    /\ ConsumerAt("send")
    /\ BridgeCommit(SendRaised(World, audio_bridge.consumer_task.x),
                    ConsumeLoop([audio_bridge EXCEPT !.clean = FALSE]))

\* lines 182-183: the CancelledError is raised at the await the consumer is
\* suspended on (a task that has not started never runs); a send under way is
\* given up
ConsumeCancelled ==
    /\ audio_bridge # NoBridge
    /\ audio_bridge.consumer_task.cancel
    /\ LET c  == audio_bridge.consumer_task.x
           w1 == IF audio_bridge.consumer_task.pc = "send"
                 THEN [World EXCEPT !.conns[c].inflight = @ - 1]
                 ELSE World
       IN  BridgeCommit(w1, [audio_bridge EXCEPT
                               !.consumer_task = [pc |-> "done", cancel |-> FALSE,
                                                  n |-> 0, x |-> 0]])

\* sounddevice: stream.stop() then stream.close(), either may raise
StreamClosed(st, outcome) ==
    CASE outcome = "ok"           -> "closed"
      [] outcome = "stop_raises"  -> st
      [] outcome = "close_raises" -> "stopped"

\* lines 223-229 and 231-237: one stream is torn down, an error is logged
TeardownStream_Unguarded(a, which, outcome) ==
    LET a1 == [a EXCEPT !.device[which] = StreamClosed(@, outcome),
                        !.tried = @ \cup {which}]
    IN  IF outcome = "ok"
        THEN IF which = "capture" THEN [a1 EXCEPT !.capture_stream = FALSE]
             ELSE [a1 EXCEPT !.playback_stream = FALSE]
        ELSE [a1 EXCEPT !.raised = TRUE]
TeardownStream(a, which, outcome) ==
    LET a1 == [a EXCEPT !.device[which] = StreamClosed(@, outcome),
                        !.tried = @ \cup {which}]
    IN  IF which = "capture" THEN [a1 EXCEPT !.capture_stream = FALSE]
        ELSE [a1 EXCEPT !.playback_stream = FALSE]

\* lines 223-239: both streams, then stop() returns (or raises)
StopStreams(a, cf, pf) ==
    LET a1 == IF a.capture_stream THEN TeardownStream(a, "capture", cf) ELSE a
        a2 == IF a1.raised \/ ~a1.playback_stream THEN a1
              ELSE TeardownStream(a1, "playback", pf)
    IN  [a2 EXCEPT !.stop = "done"]

\* lines 215-221: stop() is called (local_meeting.py 146)
BridgeStop ==
    /\ audio_bridge # NoBridge
    /\ audio_bridge.stop = "idle"
    /\ LET a1 == [audio_bridge EXCEPT !.running = FALSE] IN
       IF a1.consumer_task.pc = "none"
       THEN \E cf, pf \in {"ok", "stop_raises", "close_raises"} :
               BridgeCommit(World, StopStreams(a1, cf, pf))
       ELSE BridgeCommit(World, [a1 EXCEPT !.stop = "await_consumer",
                                           !.consumer_task.cancel =
                                               a1.consumer_task.pc # "done"])

\* lines 219-239: the consumer task has ended
BridgeStopConsumerDone ==
    /\ audio_bridge # NoBridge
    /\ audio_bridge.stop = "await_consumer"
    /\ audio_bridge.consumer_task.pc = "done"
    /\ \E cf, pf \in {"ok", "stop_raises", "close_raises"} :
          BridgeCommit(World,
              StopStreams([audio_bridge EXCEPT !.consumer_task.pc = "none"], cf, pf))

InitBridge ==
    /\ LiveInit(Limits(1, BridgeTasks, 1, 1, 0, 0, {})) /\ meet = NoMeet /\ conv = NoConv
    /\ audio_bridge = NoBridge
NextBridge ==
    \/ StartStep
    \/ \E how \in {"ok", "no_capture", "no_playback", "playback_fails"} : BridgeStart(how)
    \/ \E n \in PcmLens : CaptureCallback(n)
    \/ CaptureHandoff
    \/ LoopPut
    \/ ConsumeStart
    \/ ConsumeGet
    \/ ConsumeTimeout
    \/ ConsumeSendOk
    \/ ConsumeSendFail
    \/ ConsumeCancelled
    \/ BridgeStop
    \/ BridgeStopConsumerDone
SpecBridge == InitBridge /\ [][NextBridge]_vars

\* C16: while the bridge runs and no send has found the session disconnected
\* or failed, the chunks passed to send_audio followed by those still in the
\* queue and those handed over but not yet queued are the captured chunks in
\* the order of capture (none lost, none twice, none reordered), and the
\* session's counters are the number and the total size of the chunks sent.
C16_CapturedChunksSentInOrder ==
    (audio_bridge.running /\ audio_bridge.clean) =>
        /\ audio_bridge.captured =
               audio_bridge.sent \o audio_bridge.audio_queue \o audio_bridge.pending
        /\ sess[audio_bridge.session].audio_chunks_sent = Len(audio_bridge.sent)
        /\ sess[audio_bridge.session].audio_bytes_sent = SumOf(audio_bridge.sent)

\* all the captured chunks, of different sizes, have been sent
C16_Witness ==
    /\ audio_bridge.running /\ audio_bridge.clean
    /\ Len(audio_bridge.sent) = MaxChunks
    /\ audio_bridge.sent = audio_bridge.captured
    /\ audio_bridge.sent[1] # audio_bridge.sent[2]
    /\ audio_bridge.consumer_task.pc = "get"
    /\ sess[audio_bridge.session].audio_bytes_sent = SumOf(audio_bridge.captured)

\* C21: when start() has raised because the capture or the playback device
\* was not found, no capture stream, no playback stream and no consumer task
\* has been created.
C21_NoDeviceNothingCreated ==
    (audio_bridge # NoBridge /\ audio_bridge.started \in {"no_capture", "no_playback"}) =>
        /\ ~audio_bridge.capture_stream /\ audio_bridge.device.capture = "none"
        /\ ~audio_bridge.playback_stream /\ audio_bridge.device.playback = "none"
        /\ audio_bridge.consumer_task.pc = "none"

\* start() has raised for the playback device, after the capture device was
\* found
C21_Witness ==
    /\ audio_bridge # NoBridge /\ audio_bridge.started = "no_playback"
    /\ audio_bridge.running /\ audio_bridge.stop = "idle"

\* C20: once stop() has returned it has not raised, the consumer task has
\* ended, both stream attributes are cleared and every stream that was opened
\* has had its teardown tried, and the callback has not been called since,
\* whatever is left in the queue.
C20_StopIsFinal ==
    (audio_bridge # NoBridge /\ audio_bridge.stop = "done") =>
        /\ ~audio_bridge.raised
        /\ audio_bridge.consumer_task.pc = "none"
        /\ ~audio_bridge.capture_stream /\ ~audio_bridge.playback_stream
        /\ \A which \in {"capture", "playback"} :
              audio_bridge.device[which] # "none" => which \in audio_bridge.tried
        /\ audio_bridge.late = 0

\* stop() has returned after the capture stream failed to stop, with a chunk
\* left in the queue and one sent before
C20_Witness ==
    /\ audio_bridge # NoBridge /\ audio_bridge.stop = "done"
    /\ audio_bridge.device.capture = "active"
    /\ audio_bridge.device.playback = "closed"
    /\ audio_bridge.audio_queue # <<>>
    /\ audio_bridge.sent # <<>>

\* ==================================================== GeminiLiveManager.shutdown
\* src/bot/gemini_live.py 357-362, on a registry of several bots.
NumManagerBots == 2
ShutdownTasks  == 5
ShutdownConns  == 3
ShutdownOps    == 3
ManagerBots == 1..NumManagerBots

\* the orders in which the bot ids can have been inserted
Orders == {q \in [1..NumManagerBots -> ManagerBots] : \A i, j \in 1..NumManagerBots : q[i] = q[j] => i = j}

ShutdownCalled == \E o \in Ops : ops[o].kind = "shutdown"

Shutdown(order) ==
    /\ ~ShutdownCalled
    /\ \A o \in Ops : ops[o].pc = "done"
    /\ Commit(ShutdownBegin(World, order))

\* create_session calls that have ended before shutdown() is called
CreateBeforeShutdown(b) ==
    /\ ~ShutdownCalled
    /\ \A o \in Ops : ops[o].pc = "done"
    /\ CreateSession(b)

InitShutdown ==
    /\ LiveInitOn(Limits(NumManagerBots, ShutdownTasks, ShutdownConns, ShutdownOps, 0, 0, {}),
                  ManagerBots)
    /\ meet = NoMeet /\ conv = NoConv /\ audio_bridge = NoBridge
NextShutdown ==
    \/ \E b \in ManagerBots : CreateBeforeShutdown(b)
    \/ \E o \in Ops : ConnectOk(o)
    \/ \E o \in Ops : ConnectFail(o)
    \/ \E order \in Orders : Shutdown(order)
    \/ \E o \in Ops : DisconnectTimerDone(o)
    \/ \E o \in Ops : DisconnectReceiveDone(o)
    \/ \E o \in Ops : DisconnectAexitDone(o)
    \/ TaskStep
SpecShutdown == InitShutdown /\ [][NextShutdown]_vars

\* disconnect() has been called on session s
DisconnectCalled(s) ==
    \/ s \in hist.returned
    \/ \E o \in Ops : ops[o].s = s /\ ops[o].pc \in {"await_timer", "await_recv", "aexit"}

\* C17: when shutdown() has returned, disconnect() has been called on every
\* session that was registered when it was called, and no session is
\* registered for any of their bot ids, also when the teardown of one of them
\* has failed.
C17_ShutdownRemovesAll ==
    \A o \in Ops :
        (ops[o].kind = "shutdown" /\ ops[o].pc = "done") =>
            \A s \in ops[o].held :
                /\ DisconnectCalled(s)
                /\ sessions[sess[s].bot] = 0

\* shutdown() has returned on a registry of two sessions, the first of which
\* had lost its connection in a failed reconnect, so that closing it raised
C17_Witness ==
    \E o \in Ops :
        /\ ops[o].kind = "shutdown" /\ ops[o].pc = "done"
        /\ Cardinality(ops[o].held) = NumManagerBots
        /\ \E s \in ops[o].held : hist.s[s].failed

\* ---------------------------------------------- GeminiLiveManager.remove_session
\* the remove_session calls that return in the step
RemoveReturns ==
    {o \in 1..Len(ops') :
        /\ ops'[o].kind = "remove" /\ ops'[o].pc = "done"
        /\ (o > Len(ops) \/ ops[o].pc # "done")}

\* C18: when remove_session(b) returns, no session is registered for b
\* (has_session(b) is false, get_session(b) returns nothing) and the session
\* it has removed is disconnected; for a bot id with no registered session it
\* returns at once and changes nothing.
C18_RemoveSessionDisconnects ==
    [][\A o \in RemoveReturns :
          /\ sessions'[ops'[o].b] = 0
          /\ ops'[o].s # 0 => ~sess'[ops'[o].s].connected
          /\ ops'[o].s = 0 =>
                /\ o > Len(ops)
                /\ <<sessions, sess, tasks, conns>>' = <<sessions, sess, tasks, conns>>
      ]_vars

\* ================================================== LocalMeetingSession.stop
\* src/bot/local_meeting.py 141-172.  meet.bridge: self._audio_bridge is set;
\* meet.session: the registry holds a live session for the bot; meet.repo: a
\* repository and a meeting id are set.
MaxStops == 2      \* calls of stop(), one after the other

\* the awaited call has returned (ok) or raised: the exception is logged
StepEnded_Escapes(m, ok) ==
    IF ok THEN m ELSE [m EXCEPT !.pc = "raise"]
StepEnded(m, ok) ==
    IF ok THEN m ELSE Call(m, "logger.exception", 0)

\* lines 165-172
StopStatus(m) ==
    IF m.repo
    THEN [Call(m, "update_bot_status", 0) EXCEPT !.pc = "stop_status"]
    ELSE TurnDone(m, FALSE)

\* lines 157-163
StopRemove(m) ==
    IF m.session
    THEN [Call(m, "remove_session", 0) EXCEPT !.pc = "stop_remove"]
    ELSE StopStatus(m)

\* lines 151-155
StopLeave(m) ==
    [Call(m, "leave_meeting", 0) EXCEPT !.pc = "stop_leave"]

\* lines 143-149
StopBridge(m) ==
    IF m.bridge
    THEN [Call(m, "audio_bridge.stop", 0) EXCEPT !.pc = "stop_bridge"]
    ELSE StopLeave(m)

\* the step has ended: go on with the next one unless the exception escapes
StopGoOn(m, next) ==
    IF m.pc = "raise" THEN TurnDone(m, TRUE) ELSE next

\* stop() is called; cur (history) keeps what the session held at the call
Stop ==
    /\ meet.orch = "local" /\ meet.pc = "idle" /\ meet.done < MaxStops
    /\ MeetCommit(StopBridge([meet EXCEPT !.cur =
           [bridge |-> meet.bridge, session |-> meet.session, repo |-> meet.repo]]))

StopBridgeDone(ok) ==
    /\ meet.pc = "stop_bridge"
    /\ LET m == StepEnded(meet, ok)
       IN  MeetCommit(StopGoOn(m, StopLeave([m EXCEPT !.bridge = FALSE])))

StopLeaveDone(ok) ==
    /\ meet.pc = "stop_leave"
    /\ LET m == StepEnded(meet, ok)
       IN  MeetCommit(StopGoOn(m, StopRemove(m)))

\* remove_session has popped the session before anything in it can raise
StopRemoveDone(ok) ==
    /\ meet.pc = "stop_remove"
    /\ LET m == StepEnded(meet, ok)
       IN  MeetCommit(StopGoOn(m, StopStatus([m EXCEPT !.session = FALSE])))

StopStatusDone(ok) ==
    /\ meet.pc = "stop_status"
    /\ LET m == StepEnded(meet, ok)
       IN  MeetCommit(StopGoOn(m, TurnDone(m, FALSE)))

InitStop ==
    /\ LiveInit(Limits(0, 0, 0, 0, 0, 0, {})) /\ conv = NoConv /\ audio_bridge = NoBridge
    /\ \E bridge, session, repo \in BOOLEAN :
          meet = NewMeet("local", bridge, session, repo)
NextStop ==
    \/ Stop
    \/ \E ok \in BOOLEAN : StopBridgeDone(ok)
    \/ \E ok \in BOOLEAN : StopLeaveDone(ok)
    \/ \E ok \in BOOLEAN : StopRemoveDone(ok)
    \/ \E ok \in BOOLEAN : StopStatusDone(ok)
SpecStop == InitStop /\ [][NextStop]_vars

\* the teardown calls of a log, without the logging of errors
TeardownCalls(log) ==
    LET calls == SelectSeq(log, LAMBDA e : e.call # "logger.exception")
    IN  [i \in 1..Len(calls) |-> calls[i].call]

\* the teardown steps that apply to a session that holds f
StepsFor(f) ==
    (IF f.bridge THEN <<"audio_bridge.stop">> ELSE <<>>)
    \o <<"leave_meeting">>
    \o (IF f.session THEN <<"remove_session">> ELSE <<>>)
    \o (IF f.repo THEN <<"update_bot_status">> ELSE <<>>)

\* C19 as stated: stop() never raises and has always tried all four steps in
\* order (the live-session removal when the registry holds a session for the
\* bot), whichever of them failed.
C19_StopTriesAllFour ==
    meet.done > 0 =>
        /\ ~meet.last.raised
        /\ TeardownCalls(meet.last.log) =
               StepsFor([bridge |-> TRUE, session |-> meet.last.turn.session,
                         repo |-> TRUE])

\* C19, amended: stop() never raises and has tried, in order, every step that
\* applies (the bridge's stop when a bridge is set, the browser's leave, the
\* live-session removal when the registry holds a session for the bot, the
\* status update when a repository and a meeting id are set), whichever of
\* them failed.
C19_StopTriesEveryStep ==
    meet.done > 0 =>
        /\ ~meet.last.raised
        /\ TeardownCalls(meet.last.log) = StepsFor(meet.last.turn)

\* stop() has returned after four steps of which the first three failed
C19_Witness ==
    /\ meet.done > 0
    /\ Len(TeardownCalls(meet.last.log)) = 4
    /\ Len(meet.last.log) = 7
    /\ meet.last.log[Len(meet.last.log)].call = "update_bot_status"

\* ============================================ GeminiLiveSession.disconnect, again
\* src/bot/gemini_live.py 283-305, called more than once, and on a session
\* whose connect() has raised.
AgainTasks == 5
AgainConns == 2
AgainOps   == 3

\* a caller that holds the session object calls disconnect() once connect()
\* has returned or raised
DisconnectCall(s) ==
    /\ s \in 1..Len(sess)
    /\ \A o \in Ops : ops[o].s = s => ops[o].pc = "done"
    /\ LET w == NewOp(World, "disconnect", sess[s].bot, s)
       IN  Commit(DisconnectBegin(w, Len(w.ops)))

InitAgain == InitWith(Limits(1, AgainTasks, AgainConns, AgainOps, 0, 0, {}))
NextAgain ==
    \/ StartStep
    \/ \E s \in 1..Len(sess) : DisconnectCall(s)
    \/ \E o \in Ops : DisconnectTimerDone(o)
    \/ \E o \in Ops : DisconnectReceiveDone(o)
    \/ \E o \in Ops : DisconnectAexitDone(o)
    \/ TaskStep
SpecAgain == InitAgain /\ [][NextAgain]_vars

\* the step is a call of disconnect() on session s
DisconnectCalledOn(s) ==
    /\ Len(ops') = Len(ops) + 1
    /\ ops'[Len(ops')].kind = "disconnect" /\ ops'[Len(ops')].s = s

\* C22: a call of disconnect() on a session that is already disconnected (an
\* earlier call has returned and the session is not connected), or that never
\* connected, returns at once, changes nothing of the session and closes no
\* connection.
C22_DisconnectIdempotent ==
    [][\A s \in 1..Len(sess) :
          (/\ DisconnectCalledOn(s)
           /\ ~sess[s].connected
           /\ s \in hist.returned \/ sess[s].receive_task = 0)
          => /\ ops'[Len(ops')].pc = "done"
             /\ sess'[s] = sess[s]
             /\ conns' = conns
             /\ tasks' = tasks
      ]_vars

\* ===================================================== several bots, one manager
\* src/bot/gemini_live.py 312-362: the sessions of different bots share the
\* registry and the event loop and nothing else.
FrameSessions == 3
FrameTasks    == 6
FrameConns    == 3
FrameOps      == 3
FrameSends    == 1
FrameEvents   == 1

\* the bot of task t, of connection c
TaskBot(t) == sess[tasks[t].s].bot
ConnBot(c) == sess[conns[c].s].bot

InitFrame ==
    /\ LiveInitOn(Limits(FrameSessions, FrameTasks, FrameConns, FrameOps, FrameSends,
                         FrameEvents, {"content", "update"}), ManagerBots)
    /\ meet = NoMeet /\ conv = NoConv /\ audio_bridge = NoBridge

\* Bot 2 comes first: its session is created and connected and receives
\* events; from the creation of bot 1's session on, it only waits for the
\* next event.
FrameOther ==
    /\ Len(sess) <= 1
    /\ \/ Len(sess) = 0 /\ CreateSession(2)
       \/ \E o \in Ops : ConnectOk(o)
       \/ \E t \in Tasks : ReceiveStart(t)
       \/ \E t \in Tasks : ReceiveEvent(t)
       \/ \E t \in Tasks : ReceiveCallbackDone(t)

\* the session of bot 1, with all that can happen to it
FrameOne ==
    /\ sessions[2] # 0
    /\ \A t \in Tasks : TaskBot(t) = 2 /\ tasks[t].kind = "recv" => tasks[t].pc = "wait"
    /\ \/ CreateSession(1)
       \/ RemoveSession(1)
       \/ \E o \in Ops : ops[o].b = 1 /\ ConnectOk(o)
       \/ \E o \in Ops : ops[o].b = 1 /\ ConnectFail(o)
       \/ \E o \in Ops : DisconnectTimerDone(o)
       \/ \E o \in Ops : DisconnectReceiveDone(o)
       \/ \E o \in Ops : DisconnectAexitDone(o)
       \/ \E s \in 1..Len(sess) : sess[s].bot = 1 /\ SendAudio(s)
       \/ \E c \in 1..Len(conns) : ConnBot(c) = 1 /\ SendOk(c)
       \/ \E c \in 1..Len(conns) : ConnBot(c) = 1 /\ SendFail(c)
       \/ \E t \in Tasks : TaskBot(t) = 1 /\ ReceiveStart(t)
       \/ \E t \in Tasks : TaskBot(t) = 1 /\ ReceiveEvent(t)
       \/ \E t \in Tasks : TaskBot(t) = 1 /\ ReceiveCallbackDone(t)
       \/ \E t \in Tasks : TaskBot(t) = 1 /\ ReceiveFails(t)
       \/ \E t \in Tasks : TaskBot(t) = 1 /\ ReceiveEnds(t)
       \/ \E t \in Tasks : ReceiveCancelled(t)
       \/ \E t \in Tasks : TaskBot(t) = 1 /\ TimerExpires(t)
       \/ \E t \in Tasks : TimerCancelled(t)
       \/ \E t \in Tasks : ReconnectTaskStart(t)
       \/ \E t \in Tasks : ReconnectAexitDone(t)
       \/ \E t \in Tasks : ReconnectReceiveDone(t)
       \/ \E t \in Tasks : ReconnectAenterOk(t)
       \/ \E t \in Tasks : ReconnectAenterFail(t)

NextFrame == FrameOther \/ FrameOne
SpecFrame == InitFrame /\ [][NextFrame]_vars

\* what the program holds for bot b: its registry entry, its session objects
\* and their background tasks
BotView(b, reg, objs, tsks) ==
    [entry |-> reg[b],
     objs  |-> [s \in {i \in 1..Len(objs) : objs[i].bot = b} |-> objs[s]],
     tasks |-> [t \in {i \in 1..Len(tsks) : objs[tsks[i].s].bot = b} |-> tsks[t]]]

\* C23: no step (a send failure, a receive-loop failure, a reconnect that
\* succeeds or fails, a callback exception, a removal, a replacement, or any
\* other) changes the registry entry, the session state or the background
\* tasks of more than one bot.
C23_OtherBotsUnchanged ==
    [][Cardinality({b \in ManagerBots :
           BotView(b, sessions', sess', tasks') # BotView(b, sessions, sess, tasks)}) <= 1
      ]_vars

\* the receive loop of one bot's session has just failed while the session of
\* another bot is connected with audio accumulated
C23_Witness ==
    /\ hist.step.ended = "error"
    /\ \E s \in 1..Len(sess) :
          /\ sess[s].bot # sess[tasks[hist.step.t].s].bot
          /\ sess[s].connected
          /\ sess[s].audio_buffer # <<>>
          /\ sessions[sess[s].bot] = s

\* ------------------------------------------------------------ ws_audio_bridge
\* The websocket endpoint of bot/ws_audio.py: one connection, the frames the
\* peer sends on it and what the handler does with each of them.
MaxFrames == 4        \* frames received on the connection
WsBots    == 2        \* bot ids a message can carry; bot 1 has a live session

NoBotId    == -1      \* bot_id is None
EmptyBotId == 0       \* bot_id == "" (the message carried no bot id)

\* base64: the n-th frame's well-formed payload encodes the pcm chunk n
B64(n) == <<"b64", n>>
BadB64 == <<"not base64">>
NoB64  == <<>>

\* decode_b64_pcm: the decoded bytes, or 0 when b64decode raises
DecodeB64Pcm(b) == IF Len(b) = 2 /\ b[1] = "b64" THEN b[2] ELSE 0

\* the frames the peer can send as the n-th: text that is not JSON, JSON that
\* is not an object, and messages with or without a bot id
WsFrames(n) ==
    {[kind |-> "badjson", bot |-> EmptyBotId, b64 |-> NoB64],
     [kind |-> "notobject", bot |-> EmptyBotId, b64 |-> NoB64]}
    \cup [kind : {"audio_mixed_raw.data"}, bot : 0..WsBots, b64 : {B64(n), BadB64, NoB64}]
    \cup [kind : {"participant_events.speech_on", "other"}, bot : 0..WsBots, b64 : {NoB64}]

\* _live_manager.get_session(bot_id): the session object (named by its bot) or 0
WsGetSession(m, b) == IF b \in m.registered THEN b ELSE 0

NewWs(manager) ==
    [orch |-> "ws_bridge", manager |-> manager, registered |-> {1}, pc |-> "accept",
     bot_id |-> NoBotId, session |-> 0, sender_task |-> "none",
     on_turn_complete |-> "original", audio_chunk_count |-> 0,
     frames |-> <<>>, bound_at |-> 0, forwarded |-> <<>>, closed |-> "none"]

\* the finally clause: the sender task is cancelled and awaited, and the
\* session's turn-complete callback is put back
WsCleanup(m, why) ==
    [m EXCEPT !.pc = "done", !.closed = why,
              !.sender_task = IF m.session # 0 /\ @ # "none" THEN "cancelled" ELSE @,
              !.on_turn_complete = IF m.session # 0 /\ m.sender_task # "none"
                                   THEN "original" ELSE @]

\* lines 64-91: the bot id is taken from the message while bot_id is None
WsIdentify(m, f) ==
    IF m.bot_id # NoBotId THEN m
    ELSE IF f.bot = EmptyBotId THEN [m EXCEPT !.bot_id = EmptyBotId, !.pc = "skip"]
    ELSE IF WsGetSession(m, f.bot) = 0
         THEN WsCleanup([m EXCEPT !.bot_id = f.bot], "no_session")
    ELSE [m EXCEPT !.bot_id = f.bot, !.session = WsGetSession(m, f.bot),
                   !.on_turn_complete = "wrapper", !.sender_task = "running",
                   !.bound_at = Len(m.frames)]

\* lines 109-117: decode_b64_pcm raised, the message is skipped
DecodeFailed_Closes(m) == WsCleanup(m, "error")
DecodeFailed(m) == m

\* lines 97-131: an audio_mixed_raw.data message
WsAudioMessage(m, f) ==
    IF f.b64 # NoB64 /\ m.session # 0
    THEN IF DecodeB64Pcm(f.b64) = 0 THEN DecodeFailed(m)
         ELSE [m EXCEPT !.audio_chunk_count = @ + 1,
                        !.forwarded = Append(@, DecodeB64Pcm(f.b64))]
    ELSE m

\* one pass of the while loop (lines 54-142) on the frame f
WsHandle(m, f) ==
    LET got == [m EXCEPT !.frames = Append(@, f)]
        id  == WsIdentify(got, f)
    IN  IF f.kind = "badjson" THEN got
        ELSE IF f.kind = "notobject" THEN WsCleanup(got, "error")
        ELSE IF id.pc = "done" THEN id
        ELSE IF id.pc = "skip" THEN [id EXCEPT !.pc = "recv"]
        ELSE IF f.kind = "audio_mixed_raw.data" THEN WsAudioMessage(id, f)
        ELSE id

\* lines 40-46
WsAccept ==
    /\ meet.orch = "ws_bridge" /\ meet.pc = "accept"
    /\ MeetCommit(IF meet.manager THEN [meet EXCEPT !.pc = "recv"]
                  ELSE [meet EXCEPT !.pc = "done", !.closed = "no_manager"])

WsFrame(f) ==
    /\ meet.orch = "ws_bridge" /\ meet.pc = "recv"
    /\ Len(meet.frames) < MaxFrames
    /\ MeetCommit(WsHandle(meet, f))

\* receive_text raises WebSocketDisconnect
WsDisconnect ==
    /\ meet.orch = "ws_bridge" /\ meet.pc = "recv"
    /\ MeetCommit(WsCleanup(meet, "disconnect"))

InitWs ==
    /\ LiveInit(Limits(0, 0, 0, 0, 0, 0, {})) /\ conv = NoConv /\ audio_bridge = NoBridge
    /\ \E manager \in BOOLEAN : meet = NewWs(manager)

NextWs ==
    \/ WsAccept
    \/ \E f \in WsFrames(Len(meet.frames) + 1) : WsFrame(f)
    \/ WsDisconnect

SpecWs == InitWs /\ [][NextWs]_vars

\* the chunks of the decodable audio messages among frames i..Len(frames)
RECURSIVE DecodableFrom(_, _)
DecodableFrom(frames, i) ==
    IF i > Len(frames) THEN <<>>
    ELSE (IF frames[i].kind = "audio_mixed_raw.data" /\ DecodeB64Pcm(frames[i].b64) # 0
          THEN <<DecodeB64Pcm(frames[i].b64)>> ELSE <<>>) \o DecodableFrom(frames, i + 1)

WsUndecodable(f) ==
    \/ f.kind = "badjson"
    \/ f.kind = "audio_mixed_raw.data" /\ f.b64 = BadB64

\* C24: on a connection bound to a live session, a frame that is not JSON and
\* an audio message whose payload does not decode call send_audio for nothing
\* and leave the connection open (it ends only when the peer disconnects or a
\* later frame ends it), and the chunks passed to send_audio are
\* those of all the decodable audio messages received since the session was
\* bound, in order, whatever undecodable frames came between them.
C24_BadFrameDropped ==
    (meet.orch = "ws_bridge" /\ meet.session # 0) =>
        /\ meet.forwarded = DecodableFrom(meet.frames, meet.bound_at)
        /\ (meet.frames # <<>> /\ WsUndecodable(meet.frames[Len(meet.frames)]))
               => meet.closed \in {"none", "disconnect"}

\* a decodable audio message was forwarded after a frame that is not JSON and
\* after an audio message with an undecodable payload
C24_Witness ==
    /\ meet.orch = "ws_bridge" /\ meet.session # 0 /\ Len(meet.frames) = 4
    /\ meet.frames[2].kind = "badjson"
    /\ meet.frames[3].kind = "audio_mixed_raw.data" /\ meet.frames[3].b64 = BadB64
    /\ meet.forwarded = <<1, 4>>

\* ------------------------------------------- webhook_transcript and live sessions
\* POST /webhook/transcript (src/bot/router.py 263-324) for a bot that may have
\* a live session in GeminiLiveManager (src/bot/gemini_live.py 318-340).
HookTasks == 2
HookConns == 1
HookOps   == 1

InitHook ==
    /\ LiveInit(Limits(1, HookTasks, HookConns, HookOps, 0, 0, {}))
    /\ meet = NoMeet /\ audio_bridge = NoBridge
    /\ \E repo \in BOOLEAN :
          conv = [objs |-> <<>>, sessions |-> [b \in Bots |-> 0], map |-> {},
                  pipes |-> <<>>, repo |-> repo, max_hist |-> MaxHist]

NextHook ==
    \/ \E b \in Bots : CreateSession(b)
    \/ \E o \in Ops : ConnectOk(o)
    \/ \E o \in Ops : ConnectFail(o)
    \/ \E b \in Bots, text \in PipeTexts, restore \in BOOLEAN : WebhookTranscript(b, text, restore)
    \/ \E p \in 1..Len(conv.pipes) : PipeStart(p)
    \/ \E p \in 1..Len(conv.pipes), outcome \in GenerateOutcomes : PipeGenerated(p, outcome)
    \/ \E p \in 1..Len(conv.pipes), outcome \in DeliverOutcomes : PipeDelivered(p, outcome)

SpecHook == InitHook /\ [][NextHook]_vars

\* C25: a transcript webhook for a bot with a registered live session is
\* answered received_live and starts no text response pipeline; one for a bot
\* without a live session is answered received.
C25_LiveSkipsTextPipeline ==
    \A p \in 1..Len(conv.pipes) :
        /\ conv.pipes[p].live => conv.pipes[p].status = "received_live"
        /\ ~conv.pipes[p].live => conv.pipes[p].status = "received"

\* C25: no utterance received while the bot has a live session gets a text
\* response generated for it.
C25_NoTextAnswerWhileLive ==
    \A p \in 1..Len(conv.pipes) :
        conv.pipes[p].live => conv.pipes[p].pc \notin {"generate", "deliver"}

\* ------------------------------------------- ConversationSession.should_respond
\* should_respond (src/bot/conversation.py 52-73) asked about every text, for
\* sessions constructed under different settings.
AskSettings ==
    {[response_triggers |-> <<>>, bot_name |-> <<"B">>],
     [response_triggers |-> << <<" ", "x">>, <<" ">> >>, bot_name |-> <<"B">>],
     [response_triggers |-> << <<"x", "B">> >>, bot_name |-> <<"B">>]}

InitAsk ==
    /\ LiveInit(Limits(0, 0, 0, 0, 0, 0, {})) /\ meet = NoMeet /\ audio_bridge = NoBridge
    /\ \E st \in AskSettings :
          conv = [objs |-> <<[NewConversation(1) EXCEPT
                                !.triggers = ParseTriggers(st.response_triggers, st.bot_name)]>>,
                  max_hist |-> MaxHist, added |-> <<>>, step |-> NoAsk, settings |-> st]

NextAsk ==
    \/ \E text \in Texts : CallShouldRespond(text)
    \/ \E v \in BOOLEAN : SetResponding(v)

SpecAsk == InitAsk /\ [][NextAsk]_vars

\* the same letter, whatever the case
SameLetter(a, b) == a = b \/ {a, b} = {"B", "b"}

\* u occurs in s, case-insensitively
ContainsNoCase(s, u) ==
    \E i \in 1..(Len(s) - Len(u) + 1) : \A j \in 1..Len(u) : SameLetter(s[i + j - 1], u[j])

\* s without its leading and trailing whitespace
Trimmed(s) ==
    LET ink == {i \in 1..Len(s) : s[i] # " "}
    IN  IF ink = {} THEN <<>>
        ELSE SubSeq(s, CHOOSE i \in ink : \A j \in ink : i <= j,
                       CHOOSE i \in ink : \A j \in ink : i >= j)

\* the configured keywords (trimmed, the empty ones left out) and the bot's name
Keywords(st) ==
    ({Trimmed(st.response_triggers[i]) : i \in 1..Len(st.response_triggers)} \ {<<>>})
    \cup {st.bot_name}

\* s ends with '?', the full-width question mark, 'ka' or 'ka' and a full stop
EndsAsQuestion(s) ==
    \/ s # <<>> /\ s[Len(s)] \in {"?", "Q", "k"}
    \/ Len(s) >= 2 /\ s[Len(s) - 1] = "k" /\ s[Len(s)] = "."

\* C26 as stated: with the lock free, should_respond returns true exactly when
\* the text contains a trigger keyword or the bot's name, case-insensitively,
\* or the text ends with a question marker.
C26_RespondsIffTriggered ==
    (conv.step.kind = "ask" /\ ~conv.step.responding) =>
        (conv.step.result <=>
            \/ \E k \in Keywords(conv.settings) : ContainsNoCase(conv.step.text, k)
            \/ EndsAsQuestion(conv.step.text))

\* C26: with the lock free, should_respond returns true exactly when the text
\* without its leading and trailing whitespace contains a trigger keyword or
\* the bot's name, case-insensitively, or ends with a question marker.
C26_RespondsIffTrimmedTriggered ==
    (conv.step.kind = "ask" /\ ~conv.step.responding) =>
        (conv.step.result <=>
            \/ \E k \in Keywords(conv.settings) : ContainsNoCase(Trimmed(conv.step.text), k)
            \/ EndsAsQuestion(Trimmed(conv.step.text)))

\* asked, with the lock free, about a question mark followed by a space
C26_Witness ==
    /\ conv.step.kind = "ask" /\ ~conv.step.responding
    /\ conv.step.text = <<"?", " ">> /\ conv.step.result
    /\ Len(conv.settings.response_triggers) = 2

\* ------------------------------------------------- the category of a bot reply
\* classify_response (src/bot/meeting_conversation.py 66-78), _classify_by_content
\* (src/bot/ws_audio.py 220-230, src/bot/local_meeting.py 16-22) and the three
\* places that persist a bot reply with its category.
MaxReply == 5         \* tokens of a reply

\* A reply is a sequence of tokens: "A" is "[ANSWERED]", "a" is "[answered]",
\* "K" is "[TAKEN_BACK]", "d" is a deferral phrase of two characters, "x" is
\* any other character and " " is whitespace.
ReplyTokens == {"A", "a", "K", "d", "x", " "}
Replies == UNION {[1..n -> ReplyTokens] : n \in 0..MaxReply}

\* len(text)
RECURSIVE CharLen(_)
CharLen(text) ==
    IF text = <<>> THEN 0
    ELSE CharLen(Tail(text)) +
         (CASE Head(text) \in {"A", "a"} -> 10 [] Head(text) = "K" -> 12
            [] Head(text) = "d" -> 2 [] OTHER -> 1)

\* _CATEGORY_PATTERN.match(text) with re.IGNORECASE, and match.group(1).lower()
TagOf(text) ==
    IF text = <<>> THEN "none"
    ELSE CASE Head(text) \in {"A", "a"} -> "answered"
           [] Head(text) = "K" -> "taken_back"
           [] OTHER -> "none"

\* MeetingConversationSession.classify_response
ClassifyResponse(text) ==
    IF TagOf(text) # "none"
    THEN [clean_text |-> Strip(Tail(text)), category |-> TagOf(text)]
    ELSE [clean_text |-> text, category |-> "none"]

\* _classify_by_content
ClassifyByContent(text) ==
    IF text = <<>> \/ CharLen(Strip(text)) < 5 THEN "none"
    ELSE IF \E i \in 1..Len(text) : text[i] = "d" THEN "taken_back"
    ELSE "answered"

\* ws_audio.py 236-238 and local_meeting.py 123-125
ClassifyWithFallback(text) ==
    LET c == ClassifyResponse(text)
    IN  IF c.category = "none" THEN [c EXCEPT !.category = ClassifyByContent(c.clean_text)]
        ELSE c

\* repo.add_conversation_entry(meeting_id, bot_id, name, clean_text, "bot", category)
AddConversationEntry(from, c) ==
    MeetCommit([meet EXCEPT !.site = from, !.text = c.clean_text, !.category = c.category])

\* ws_audio.py _persist_bot_response (lines 232-246)
WsPersistBotResponse(text) == AddConversationEntry("ws", ClassifyWithFallback(text))

\* local_meeting.py _persist_response (lines 119-139)
LocalPersistResponse(text) == AddConversationEntry("local", ClassifyWithFallback(text))

\* router.py _handle_avatar_response (lines 231-242)
PipePersistResponse(text) == AddConversationEntry("pipeline", ClassifyResponse(text))

InitReply ==
    /\ LiveInit(Limits(0, 0, 0, 0, 0, 0, {})) /\ conv = NoConv /\ audio_bridge = NoBridge
    /\ \E reply \in Replies \ {<<>>} :
          meet = [orch |-> "reply", site |-> "none", raw |-> reply, text |-> <<>>,
                  category |-> "none"]

\* the reply meet.raw reaches one of the three places (text_data and
\* response_text are non-empty there)
NextReply ==
    \/ WsPersistBotResponse(meet.raw)
    \/ LocalPersistResponse(meet.raw)
    \/ PipePersistResponse(meet.raw)

SpecReply == InitReply /\ [][NextReply]_vars

\* the category the reply is to be persisted with: its tag, or else what its
\* content tells
CategoryOf(raw) ==
    IF Head(raw) \in {"A", "a"} THEN "answered"
    ELSE IF Head(raw) = "K" THEN "taken_back"
    ELSE IF CharLen(Trimmed(raw)) < 5 THEN "none"
    ELSE IF "d" \in {raw[i] : i \in 1..Len(raw)} THEN "taken_back"
    ELSE "answered"

\* the text the reply is to be persisted with: the reply without its tag
TextOf(raw) == IF Head(raw) \in {"A", "a", "K"} THEN Trimmed(Tail(raw)) ELSE raw

\* C27: a bot reply is persisted with its tag as category and the tag stripped
\* when it begins with [ANSWERED] or [TAKEN_BACK] in any case, and otherwise
\* with the category of the content heuristic: none when the trimmed text has
\* fewer than 5 characters, taken_back when it holds a deferral phrase,
\* answered in every other case.
C27_CategoryOfReply ==
    (meet.orch = "reply" /\ meet.site # "none") =>
        /\ meet.category = CategoryOf(meet.raw)
        /\ meet.text = TextOf(meet.raw)

\* C27 for the replies that the two live orchestrators persist
C27_CategoryOfLiveReply ==
    (meet.orch = "reply" /\ meet.site \in {"ws", "local"}) =>
        /\ meet.category = CategoryOf(meet.raw)
        /\ meet.text = TextOf(meet.raw)

\* ------------------------------------------------------------ the mute window
\* The mute window that the two orchestrators compute for a reply whose audio
\* plays for meet.playback tenths of a second (src/bot/ws_audio.py 176-177 and
\* 212-217, src/bot/local_meeting.py 93-96).
MaxPlayback   == 130  \* the longest playback time, in tenths of a second
PlaybackBelow == 3    \* playback times down to this many tenths below zero

InitMute ==
    /\ LiveInit(Limits(0, 0, 0, 0, 0, 0, {})) /\ conv = NoConv /\ audio_bridge = NoBridge
    /\ \E p \in (0 - PlaybackBelow)..MaxPlayback :
          meet = [orch |-> "mute", playback |-> p, by |-> "none", mute_seconds |-> 0]

\* _compute_mute_seconds(playback_seconds), for any argument
WsComputeMute ==
    /\ meet.orch = "mute"
    /\ MeetCommit([meet EXCEPT !.by = "ws",
                               !.mute_seconds = ComputeMuteSeconds(meet.playback)])

\* _handle_turn computes the window only for audio_data that is not empty,
\* whose playback time is above zero
LocalComputeMute ==
    /\ meet.orch = "mute" /\ meet.playback > 0
    /\ MeetCommit([meet EXCEPT !.by = "local",
                               !.mute_seconds = LocalMuteSeconds(meet.playback)])

NextMute == WsComputeMute \/ LocalComputeMute
SpecMute == InitMute /\ [][NextMute]_vars

\* C28: the mute window computed for playback time p lies within [0.5, 12.0]
\* seconds: 0.5 when p <= 0, p + 0.6 when 0 < p <= 11.4, 12.0 when p > 11.4
\* (here in tenths of a second).
C28_MuteWindow ==
    (meet.orch = "mute" /\ meet.by # "none") =>
        /\ meet.mute_seconds >= 5 /\ meet.mute_seconds <= 120
        /\ meet.playback <= 0 => meet.mute_seconds = 5
        /\ (meet.playback > 0 /\ meet.playback <= 114) => meet.mute_seconds = meet.playback + 6
        /\ meet.playback > 114 => meet.mute_seconds = 120

\* the window computed for a playback of 12.5 seconds
C28_Witness ==
    meet.orch = "mute" /\ meet.by = "ws" /\ meet.playback = 125 /\ meet.mute_seconds = 120

\* ------------------------------------------------------------------ _resample
\* _resample (src/bot/audio_bridge.py 42-58) as the capture callback (line 133)
\* and play_audio (line 205) call it.  Rates are in units of 8 kHz.
MaxSamples == 6       \* len(data)
MaxRate    == 6       \* the highest sample rate (48 kHz)
Rates == {2, 3, MaxRate}

\* int(len(data) * ratio): the product truncated
Truncated(n, src_rate, dst_rate) == (n * dst_rate) \div src_rate

\* the array returned for an input of n samples: its length, whether it is the
\* input itself, and whether the call raised instead (np.interp rejects an
\* empty array of sample points)
Resample(n, src_rate, dst_rate) ==
    IF src_rate = dst_rate THEN [len |-> n, same |-> TRUE, raised |-> FALSE]
    ELSE IF n = 0 THEN [len |-> 0, same |-> FALSE, raised |-> TRUE]
    ELSE [len |-> Truncated(n, src_rate, dst_rate), same |-> FALSE, raised |-> FALSE]

ResampleCommit(by) ==
    /\ audio_bridge' = [audio_bridge EXCEPT !.by = by,
            !.out = Resample(audio_bridge.n, audio_bridge.src_rate, audio_bridge.dst_rate)]
    /\ UNCHANGED <<LiveVars, meet, conv>>

\* _capture_callback: audio = _resample(audio, native_rate, self._target_rate)
CaptureResample == audio_bridge.by # "capture" /\ ResampleCommit("capture")

\* play_audio: audio = _resample(audio, sample_rate, playback_rate)
PlayResample == audio_bridge.by # "play" /\ ResampleCommit("play")

InitResample ==
    /\ LiveInit(Limits(0, 0, 0, 0, 0, 0, {})) /\ meet = NoMeet /\ conv = NoConv
    /\ \E n \in 0..MaxSamples, src_rate \in Rates, dst_rate \in Rates :
          audio_bridge = [running |-> FALSE, n |-> n, src_rate |-> src_rate,
                          dst_rate |-> dst_rate, by |-> "none",
                          out |-> [len |-> 0, same |-> FALSE, raised |-> FALSE]]

NextResample == CaptureResample \/ PlayResample
SpecResample == InitResample /\ [][NextResample]_vars

\* n * dst / src rounded to the nearest integer, a half rounded up or down
Rounded(n, src_rate, dst_rate) ==
    {k \in 0..(n * dst_rate) : 2 * src_rate * k - 2 * n * dst_rate \in (0 - src_rate)..src_rate}

\* C29: for every input length n and rates (src, dst), _resample returns
\* round(n * dst / src) samples, and the input itself when src = dst.
C29_ResampleLength ==
    audio_bridge.by # "none" =>
        /\ ~audio_bridge.out.raised
        /\ audio_bridge.out.len \in
               Rounded(audio_bridge.n, audio_bridge.src_rate, audio_bridge.dst_rate)
        /\ audio_bridge.src_rate = audio_bridge.dst_rate => audio_bridge.out.same

\* C29, the part that holds: _resample returns the input itself when
\* src = dst, and otherwise, for a non-empty input, n * dst / src samples
\* rounded down.
C29_ResampleLengthTruncated ==
    audio_bridge.by # "none" =>
        /\ audio_bridge.src_rate = audio_bridge.dst_rate =>
               audio_bridge.out.same /\ audio_bridge.out.len = audio_bridge.n
        /\ (audio_bridge.src_rate # audio_bridge.dst_rate /\ audio_bridge.n > 0) =>
               /\ ~audio_bridge.out.raised
               /\ audio_bridge.out.len * audio_bridge.src_rate
                      <= audio_bridge.n * audio_bridge.dst_rate
               /\ (audio_bridge.out.len + 1) * audio_bridge.src_rate
                      > audio_bridge.n * audio_bridge.dst_rate

\* ------------------------------------------------ the buffers across a reconnect
\* _reconnect (src/bot/gemini_live.py 238-281) against the fragments that the
\* receive loop has accumulated (lines 161-196), under SpecRecv.

\* the step completes a reconnect of task t: __aenter__ has returned the new connection
ReconnectCompletes(t) ==
    /\ InReconnect(t) /\ tasks[t].pc = "aenter"
    /\ tasks'[t].pc = "done"
    /\ conns[tasks[t].x].st = "opening" /\ conns'[tasks[t].x].st = "open"

\* C30: after every reconnect the audio and text accumulation buffers of the
\* session are empty, so that fragments of a turn that never completed on the
\* previous connection are not part of the first turn on the new one.
C30_BuffersEmptyAfterReconnect ==
    [][\A t \in Tasks :
          ReconnectCompletes(t) =>
              /\ sess'[tasks[t].s].audio_buffer = <<>>
              /\ sess'[tasks[t].s].text_buffer = <<>>]_vars

\* ------------------------------------------------ one reconnect at a time
\* the reconnect procedures of session s that have been scheduled or started
\* and have not ended: tasks created for _reconnect (send_audio line 140,
\* _receive_loop line 220) and timers past their sleep (_reconnect_timer line 232)
ReconnectsInFlight(s) ==
    {t \in Tasks : /\ tasks[t].s = s /\ tasks[t].pc # "done"
                   /\ \/ tasks[t].kind = "reconn"
                      \/ tasks[t].kind = "timer" /\ tasks[t].pc # "sleep"}

\* C31: for one session at most one reconnect procedure is in flight at any
\* time, whatever the trigger (a send failure, a receive-loop failure, the
\* timer).
C31_OneReconnectInFlight ==
    \A s \in 1..Len(sess) : Cardinality(ReconnectsInFlight(s)) <= 1

\* C31, the consequence: a session never has two receive loops running nor
\* two open backend connections.
C31_OneLoopOneConnection ==
    \A s \in 1..Len(sess) :
        /\ Cardinality({t \in Tasks : tasks[t].s = s /\ tasks[t].kind = "recv"
                                          /\ tasks[t].pc \notin {"new", "done"}}) <= 1
        /\ Cardinality({c \in 1..Len(conns) : conns[c].s = s /\ conns[c].st = "open"}) <= 1

\* ------------------------------------------------ the receive loop of a connection
\* C32: whenever a session is marked connected (and no reconnect is on its
\* way to replace the connection), its receive-loop task is running (created
\* by connect() or _reconnect and not ended), also after the server has ended
\* the event stream.
C32_ConnectedHasReceiveLoop ==
    \A s \in 1..Len(sess) :
        (sess[s].connected /\ ReconnectsInFlight(s) = {}) =>
            /\ sess[s].receive_task # 0
            /\ tasks[sess[s].receive_task].pc # "done"

\* ------------------------------------------------------ the reconnect timer
\* the timers of session s that are asleep and have not been cancelled
PendingTimers(s) ==
    {t \in Tasks : tasks[t].s = s /\ tasks[t].kind = "timer"
                   /\ tasks[t].pc = "sleep" /\ ~tasks[t].cancel}

\* C33: whenever a session is connected exactly one reconnect timer is pending
\* for it, the one in _reconnect_task; and a timer that expires while the
\* session is not connected ends without starting a reconnect.
C33_OneTimerWhileConnected ==
    /\ [](\A s \in 1..Len(sess) :
            sess[s].connected => PendingTimers(s) = {sess[s].reconnect_task})
    /\ [][\A t \in Tasks :
            (/\ tasks[t].kind = "timer" /\ tasks[t].pc = "sleep" /\ ~tasks[t].cancel
             /\ tasks'[t].pc # "sleep"
             /\ ~sess[tasks[t].s].connected)
            => tasks'[t].pc = "done" /\ conns' = conns]_vars

\* a reconnect started by the timer itself has succeeded: the session is
\* connected again, the timer that ran it is over and a new one is pending
C33_Witness ==
    \E s \in 1..Len(sess), t \in Tasks :
        /\ sess[s].connected /\ tasks[t].s = s
        /\ tasks[t].kind = "timer" /\ tasks[t].pc = "done"
        /\ sess[s].reconnect_task # t /\ sess[s].reconnect_task # 0
        /\ Cardinality({c \in 1..Len(conns) : conns[c].s = s /\ conns[c].reconn}) >= 1

\* ------------------------------------------------- send_audio under a mute window
\* The orchestrators ask the session for a mute window around playback
\* (src/bot/local_meeting.py 98-105, src/bot/ws_audio.py 180-190) while chunks
\* keep arriving at send_audio (src/bot/gemini_live.py 111-140).
MutedTasks == 3
MutedSends == 3

\* the windows asked for: the pre-mute and the full windows of AudioTenths
MuteWindows == {5} \cup {ComputeMuteSeconds(a) : a \in AudioTenths \ {0}}

\* session.set_mute_duration(d): GeminiLiveSession defines no such method, the
\* call raises AttributeError and leaves the session as it was.  meet.window is
\* the time left of the window the orchestrator asked for.
SetMuteDuration(d) ==
    /\ meet.orch = "muted" /\ sessions[1] # 0
    /\ MeetCommit([meet EXCEPT !.window = d, !.raised = ~CanMute])

\* the time of the window asked for has passed
MuteElapsed ==
    /\ meet.orch = "muted" /\ meet.window > 0
    /\ MeetCommit([meet EXCEPT !.window = 0, !.raised = FALSE])

InitMuted ==
    /\ LiveInit(Limits(1, MutedTasks, 1, 1, MutedSends, 0, {}))
    /\ conv = NoConv /\ audio_bridge = NoBridge
    /\ meet = [orch |-> "muted", window |-> 0, raised |-> FALSE]

NextMuted ==
    \/ CreateSession(1)
    \/ \E o \in Ops : ConnectOk(o)
    \/ \E d \in MuteWindows : SetMuteDuration(d)
    \/ MuteElapsed
    \/ \E s \in 1..Len(sess) : SendAudio(s)
    \/ \E c \in 1..Len(conns) : SendOk(c)
    \/ \E c \in 1..Len(conns) : SendFail(c)

SpecMuted == InitMuted /\ [][NextMuted]_vars

\* C34: while a mute window that the orchestrator has set is in effect, a
\* chunk passed to send_audio is not streamed to the backend.
C34_NoStreamWhileMuted ==
    [][(meet.window > 0 /\ hist'.step.send # 0) =>
          \A c \in 1..Len(conns) : conns'[c].inflight <= conns[c].inflight]_vars

\* ------------------------------------------------ the chunks waiting for the consumer
\* the chunks between the capture callback and the consumer: those handed to
\* call_soon_threadsafe and those in the asyncio.Queue() of start() (line 98,
\* created without a maxsize)
Waiting == Len(audio_bridge.pending) + Len(audio_bridge.audio_queue)

\* C35: the number of captured chunks waiting for the consumer stays under a
\* fixed bound, however slow the consumer's callback is: it never comes to
\* hold everything that has been captured.
C35_WaitingBounded ==
    (audio_bridge # NoBridge /\ audio_bridge.running) => Waiting < MaxChunks

\* ------------------------------------------------ identifying the bot of a connection
\* the frames that carry the id of a bot with a registered live session
Identifying(m) == {i \in 1..Len(m.frames) : m.frames[i].bot \in m.registered}

\* C36: on an open connection, once a message with the id of a bot that has a
\* live session has been received, the chunks passed to send_audio are those
\* of all the decodable audio messages from that message on, in arrival order;
\* messages without a bot id that came before do not prevent it.
C36_ForwardedOnceIdentified ==
    (meet.orch = "ws_bridge" /\ meet.pc = "recv" /\ Identifying(meet) # {}) =>
        meet.forwarded =
            DecodableFrom(meet.frames,
                          CHOOSE i \in Identifying(meet) : \A j \in Identifying(meet) : i <= j)

\* ------------------------------------------- two connections for the same bot
\* Several websocket connections that identify the same bot (src/bot/ws_audio.py
\* 76-90) and close (lines 148-155), and the turns that the session completes
\* meanwhile.  A callback is 0 (the one the session was created with) or k (the
\* wrapper of connection k, which puts the turn on that connection's queue).
WsConnections == 3    \* connections opened for the bot
MaxPairTurns  == 2    \* turns the session completes

MeetVars == <<LiveVars, conv, audio_bridge>>

\* lines 76-90: connection k has found the session of its bot
WsBind(k) ==
    /\ meet.orch = "ws_pair" /\ meet.conn[k].st = "new"
    /\ meet' = [meet EXCEPT !.conn[k] = [st |-> "open",
                                          original_on_turn_complete |-> meet.on_turn_complete],
                            !.on_turn_complete = k,
                            !.overlap = @ \/ \E j \in 1..WsConnections : meet.conn[j].st = "open"]
    /\ UNCHANGED MeetVars

\* lines 148-155: connection k ends; its sender task is cancelled and the
\* callback it saved is put back
WsClose(k) ==
    /\ meet.orch = "ws_pair" /\ meet.conn[k].st = "open"
    /\ meet' = [meet EXCEPT !.conn[k].st = "closed",
                            !.on_turn_complete = meet.conn[k].original_on_turn_complete]
    /\ UNCHANGED MeetVars

\* the receive loop calls self._on_turn_complete(audio_data, text_data):
\* a wrapper puts the turn on the queue of its connection
PairTurnComplete ==
    /\ meet.orch = "ws_pair" /\ meet.turns < MaxPairTurns
    /\ meet' = [meet EXCEPT !.turns = @ + 1,
                            !.to_closed = @ \/ (meet.on_turn_complete # 0
                                   /\ meet.conn[meet.on_turn_complete].st = "closed")]
    /\ UNCHANGED MeetVars

InitPair ==
    /\ LiveInit(Limits(0, 0, 0, 0, 0, 0, {})) /\ conv = NoConv /\ audio_bridge = NoBridge
    /\ meet = [orch |-> "ws_pair", on_turn_complete |-> 0, turns |-> 0, to_closed |-> FALSE, overlap |-> FALSE,
               conn |-> [k \in 1..WsConnections |->
                            [st |-> "new", original_on_turn_complete |-> 0]]]

NextPair ==
    \/ \E k \in 1..WsConnections : WsBind(k)
    \/ \E k \in 1..WsConnections : WsClose(k)
    \/ PairTurnComplete

SpecPair == InitPair /\ [][NextPair]_vars

\* C37: when every connection that bridged the session has closed, the
\* session's turn-complete callback is the one it had before the first of them
\* connected, and no turn has been put on the queue of a closed connection.
C37_CallbackRestored ==
    meet.orch = "ws_pair" =>
        /\ ~meet.to_closed
        /\ (\A k \in 1..WsConnections : meet.conn[k].st # "open") => meet.on_turn_complete = 0

\* C37 for connections that were never open at the same time
C37_CallbackRestoredNoOverlap ==
    (meet.orch = "ws_pair" /\ ~meet.overlap) =>
        /\ ~meet.to_closed
        /\ (\A k \in 1..WsConnections : meet.conn[k].st # "open") => meet.on_turn_complete = 0

\* ------------------------------------------------- the lock of a pipeline
\* the pipelines that hold the lock of ConversationSession object o
Holders(o) ==
    {p \in 1..Len(conv.pipes) :
        conv.pipes[p].obj = o /\ conv.pipes[p].pc \in {"generate", "deliver"}}

\* C38: a pipeline that has taken is_responding releases it when it ends, on
\* every outcome (sent, empty response, TTS unavailable, exception,
\* cancellation): the lock of a session object is held only while a pipeline
\* that took it is running, and a pipeline that has ended holds no lock.
C38_LockReleased ==
    conv # NoConv =>
        \A o \in 1..Len(conv.objs) : conv.objs[o].is_responding => Holders(o) # {}

C38_Witness ==
    /\ conv # NoConv
    /\ \E p \in 1..Len(conv.pipes) :
          /\ conv.pipes[p].end = "cancel"
          /\ ~conv.objs[conv.pipes[p].obj].is_responding
    /\ \E p \in 1..Len(conv.pipes) : conv.pipes[p].end \in {"sent", "no_tts", "empty", "raise"}

\* ================================== LocalMeetingSession and the browser client
\* src/bot/browser_client.py (join_meeting, leave_meeting, active_bots) as used
\* by LocalMeetingSession.start and stop (src/bot/local_meeting.py).  A page is
\* named by the uuid that join_meeting generated for it; uuids are 1, 2, ...
\* in the order of their generation.  meet.pages is the set of keys of
\* BrowserClient._pages, meet.open the pages that have not been closed.
MaxPages   == 4     \* pages the browser opens
OwnId      == 0     \* a bot id that the caller made up itself

\* join_meeting, lines 80-85: a new page, registered under a new uuid
JoinMeeting(m) ==
    [m EXCEPT !.uuid = @ + 1, !.pages = @ \cup {m.uuid + 1}, !.open = @ \cup {m.uuid + 1}]

\* leave_meeting, lines 138-164: the page registered under bot_id is popped
\* and closed; without one only a warning is logged
LeaveMeeting(m, bot_id) ==
    IF bot_id \in m.pages
    THEN [m EXCEPT !.pages = @ \ {bot_id}, !.open = @ \ {bot_id}]
    ELSE m

\* active_bots, lines 194-197
ActiveBots(m) == m.pages

\* LocalMeetingSession(bot_id, ...), lines 32-50: the caller passes the id of
\* a bot that the browser has joined before, or one of its own
LocalConstruct(bot_id) ==
    /\ meet.orch = "browser" /\ meet.pc = "none"
    /\ meet' = [meet EXCEPT !.pc = "new", !.bot_id = bot_id]
    /\ UNCHANGED MeetVars

\* another caller of the same browser client joins a meeting
OtherJoin ==
    /\ meet.orch = "browser" /\ meet.uuid < MaxPages
    /\ meet' = JoinMeeting(meet)
    /\ UNCHANGED MeetVars

\* another caller leaves the meeting of a bot that it had joined
OtherLeave(bot_id) ==
    /\ meet.orch = "browser" /\ bot_id \in meet.pages /\ bot_id # meet.joined
    /\ meet' = LeaveMeeting(meet, bot_id)
    /\ UNCHANGED MeetVars

\* start(), line 63: join_meeting is awaited; its return value is dropped
LocalStartJoin ==
    /\ meet.orch = "browser" /\ meet.pc = "new" /\ meet.uuid < MaxPages
    /\ meet' = [JoinMeeting(meet) EXCEPT !.pc = "joining", !.joined = meet.uuid + 1]
    /\ UNCHANGED MeetVars

\* start(), lines 63-89: the navigation, create_session and the start of the
\* audio bridge have returned (ok), or one of them raised and start() with it
LocalStartDone(ok) ==
    /\ meet.orch = "browser" /\ meet.pc = "joining"
    /\ meet' = [meet EXCEPT !.pc = IF ok THEN "started" ELSE "failed"]
    /\ UNCHANGED MeetVars

\* stop(), lines 141-172, as far as the browser is concerned: lines 151-155
LocalStop ==
    /\ meet.orch = "browser" /\ meet.pc \in {"started", "failed"}
    /\ meet' = [LeaveMeeting(meet, meet.bot_id) EXCEPT
                    !.pc = IF meet.pc = "started" THEN "stopped" ELSE "stopped_failed"]
    /\ UNCHANGED MeetVars

InitBrowser ==
    /\ LiveInit(Limits(0, 0, 0, 0, 0, 0, {})) /\ conv = NoConv /\ audio_bridge = NoBridge
    /\ meet = [orch |-> "browser", pc |-> "none", bot_id |-> NoBotId, joined |-> NoBotId,
               uuid |-> 0, pages |-> {}, open |-> {}]

NextBrowser ==
    \/ \E bot_id \in {OwnId} \cup 1..meet.uuid : LocalConstruct(bot_id)
    \/ OtherJoin
    \/ \E bot_id \in 1..MaxPages : OtherLeave(bot_id)
    \/ LocalStartJoin
    \/ \E ok \in BOOLEAN : LocalStartDone(ok)
    \/ LocalStop

SpecBrowser == InitBrowser /\ [][NextBrowser]_vars

\* C39: after start() followed by stop() the page that start() had opened is
\* closed and its bot is not listed in active_bots.
C39_PageClosedAfterStop ==
    (meet.orch = "browser" /\ meet.pc = "stopped") =>
        /\ meet.joined \notin meet.open
        /\ meet.joined \notin ActiveBots(meet)

\* =========================================================== the scheduler
\* src/calendar_sync/scheduler.py: _scheduler_loop calls _check_and_join once
\* a minute; ticks do not overlap.  meet.status is the bot_status column of the
\* repository, meet.snap the list that list_meetings returned to the running
\* tick, meet.due the meetings whose time has come (within two minutes of the
\* start and not ended), meet.created the bots that create_bot_with_audio has
\* created for each meeting.
SchedMeetings == 2    \* meetings with AI enabled and a meeting URL
MaxTicks      == 3    \* ticks of the scheduler

\* _check_and_join, lines 34-58: the loop goes on from meeting i of the list
\* to the first one that it joins; without one the tick is over
RECURSIVE SchedScan(_, _)
SchedScan(m, i) ==
    IF i > SchedMeetings THEN [m EXCEPT !.pc = "sleep", !.i = 0]
    ELSE IF m.snap[i] \in {"idle", "scheduled"} /\ i \in m.due
         THEN IF m.recall_api_key
              THEN [m EXCEPT !.pc = "create_bot", !.i = i]
              ELSE SchedScan(m, i + 1)
         ELSE SchedScan(m, i + 1)

\* _scheduler_loop, lines 104-109, and list_meetings, line 32: a tick begins;
\* when list_meetings raises the tick is over
SchedTick(ok) ==
    /\ meet.orch = "sched" /\ meet.pc = "sleep" /\ meet.ticks < MaxTicks
    /\ meet' = IF ok THEN SchedScan([meet EXCEPT !.ticks = @ + 1, !.snap = meet.status], 1)
                     ELSE [meet EXCEPT !.ticks = @ + 1]
    /\ UNCHANGED MeetVars

\* the start of a meeting comes near
SchedDue(i) ==
    /\ meet.orch = "sched" /\ i \notin meet.due
    /\ meet' = [meet EXCEPT !.due = @ \cup {i}]
    /\ UNCHANGED MeetVars

\* lines 70-73: create_bot_with_audio returns the new bot, or raises
CreateBotDone(ok) ==
    /\ meet.orch = "sched" /\ meet.pc = "create_bot"
    /\ meet' = IF ok THEN [meet EXCEPT !.created[meet.i] = @ + 1, !.pc = "joining"]
                     ELSE [meet EXCEPT !.pc = "reset"]
    /\ UNCHANGED MeetVars

\* line 75: update_bot_status(id, bot_id, "joining") returns, or raises
StatusDone(ok) ==
    /\ meet.orch = "sched" /\ meet.pc = "joining"
    /\ meet' = IF ok THEN [meet EXCEPT !.status[meet.i] = "joining", !.pc = "materials"]
                     ELSE [meet EXCEPT !.pc = "reset", !.broken = @ \cup {meet.i}]
    /\ UNCHANGED MeetVars

\* lines 78-94: list_materials and the conversation session, or an exception
MaterialsDone(ok) ==
    /\ meet.orch = "sched" /\ meet.pc = "materials"
    /\ meet' = IF ok THEN SchedScan(meet, meet.i + 1)
                     ELSE [meet EXCEPT !.pc = "reset", !.broken = @ \cup {meet.i}]
    /\ UNCHANGED MeetVars

\* lines 96-98: the exception is logged and the status set back to "idle";
\* when that raises too, the exception ends the tick (lines 105-108)
ResetDone(ok) ==
    /\ meet.orch = "sched" /\ meet.pc = "reset"
    /\ meet' = IF ok THEN SchedScan([meet EXCEPT !.status[meet.i] = "idle"], meet.i + 1)
                     ELSE [meet EXCEPT !.pc = "sleep", !.i = 0]
    /\ UNCHANGED MeetVars

InitSched ==
    /\ LiveInit(Limits(0, 0, 0, 0, 0, 0, {})) /\ conv = NoConv /\ audio_bridge = NoBridge
    /\ \E status \in [1..SchedMeetings -> {"idle", "scheduled"}], key \in BOOLEAN :
          meet = [orch |-> "sched", pc |-> "sleep", i |-> 0, ticks |-> 0,
                  status |-> status, snap |-> status, due |-> {},
                  recall_api_key |-> key,
                  created |-> [i \in 1..SchedMeetings |-> 0], broken |-> {}]

NextSched ==
    \/ \E ok \in BOOLEAN : SchedTick(ok)
    \/ \E i \in 1..SchedMeetings : SchedDue(i)
    \/ \E ok \in BOOLEAN : CreateBotDone(ok)
    \/ \E ok \in BOOLEAN : StatusDone(ok)
    \/ \E ok \in BOOLEAN : MaterialsDone(ok)
    \/ \E ok \in BOOLEAN : ResetDone(ok)

SpecSched == InitSched /\ [][NextSched]_vars

\* C40: whatever the ticks and the outcomes of the steps of a join, the
\* scheduler creates at most one bot for a meeting.
C40_OneBotPerMeeting ==
    meet.orch = "sched" => \A i \in 1..SchedMeetings : meet.created[i] <= 1

\* C40 for the meetings whose join had no failing step after the creation of
\* the bot
C40_OneBotWhenJoinCompletes ==
    meet.orch = "sched" =>
        \A i \in 1..SchedMeetings : i \notin meet.broken => meet.created[i] <= 1

====
